---- MODULE Spec2Model ----
(***************************************************************************)
(* Symbol recognition pipeline of the drawing tools:                       *)
(*   UnionFind, bucket-key connectivity clustering, bbox merge/refine,     *)
(*   geometry canonicalisation, the legend geometry library and the two    *)
(*   matching paths.                                                       *)
(* Coordinates are integers (fixed point); square roots are never taken:   *)
(* every comparison against a distance is done on squares.                 *)
(***************************************************************************)
EXTENDS Integers, Sequences, FiniteSets, TLC

VARIABLES
    \* ---- UnionFind (class UnionFind) ----
    parent,      \* self.parent
    rank,        \* self.rank
    edges,       \* history: the set of {a,b}, a # b, passed to union so far
    ufRet,       \* history of the find calls: "none", "plain" (no call changed parent), "compressed", or "wrong" (a call returned a non-root or changed a find result)
    ufNoop,      \* history of the unions of two elements of one set: "none", "held" (all left every find result unchanged) or "broken"
    \* ---- group_green_entities (its uf is parent, rank above) ----
    entities,        \* the filtered entity list, in iteration order
    ctol,            \* tol
    cpc,             \* "points" (first loop), "circles" (second loop), "collect", "done"
    cidx,            \* position of the running loop
    first_owner,     \* first_owner: bucket key -> entity index
    point_buckets,   \* point_buckets: bucket key -> list of (x, y, idx)
    circle_indices,  \* circle_indices
    groups,          \* the returned list of groups (as a set of index sets)
    \* ---- merge_by_bbox_iterative ----
    mgroups,     \* cur_groups
    mbboxes,     \* cur_bboxes
    minput,      \* the bboxes argument
    mgap,        \* merge_gap
    mratio,      \* size_ratio
    mpc,         \* "run" (in the while loop) or "done" (returned)
    mrounds,     \* rounds of the while loop that replaced the lists
    \* ---- refine_and_merge_bboxes ----
    rcur,        \* cur_bboxes
    rents,       \* the bboxes of all_entity_bboxes
    rpad,        \* pad
    rgap,        \* merge_gap
    rit,         \* it
    rpc,         \* "run" (in the while loop) or "done" (returned)
    rexit,       \* which return was taken: "none", "stable" or "cap"
    rout,        \* the returned list
    rdiag,       \* the warnings the function has printed or logged, in order
    \* ---- _compute_geom_from_bbox on a symbol and on its transforms ----
    gsym0,       \* the symbol as first drawn: the entities of the bbox, in order
    gsym,        \* the same symbol after the transforms applied so far
    ggrid,       \* 1 / quant_grid
    ggeom0,      \* the geometry computed for gsym0
    ggeom,       \* the geometry computed for gsym
    gops,        \* the kinds of transform applied so far
    \* ---- export_legend_geometry_library on one index file ----
    libfile,     \* the index file
    lpc,         \* per run: "idle", "loaded" (index read, results applied in memory), "stored"
    lmem,        \* per run: items_by_id
    lhist,       \* history: per geometry id, the examples appended, in order of arrival
    llabels,     \* history: per geometry id, the labels it was indexed with
    loverlap,    \* history: a run read the index while another run had not yet written it
    \* ---- the two matching paths ----
    xpc,         \* "fp" / "fpdone" (fingerprint path), "ch" / "chdone" (descriptor+Chamfer path)
    frefs,       \* fingerprint path: the references (phash, stats, gid, sig)
    fcands,      \* fingerprint path: the candidate INSERTs (phash, stats, sig)
    fmaxd,       \* --match-phash-max-dist
    ftopk,       \* --match-top-k
    fmatches,    \* fingerprint path: the reported matches
    hlib,        \* Chamfer path: the library (entities of each template)
    hcand,       \* Chamfer path: the entities of the candidate cluster
    hscores,     \* Chamfer path: chamfer_best_rotation score of the candidate against each template
    hthr,        \* --score-threshold
    htopk,       \* --coarse-topk
    hcthr,       \* --chamfer-threshold, in hundredths
    hmatch,      \* Chamfer path: the reported match, or the reason there is none
    \* ---- _phash_from_vector and _phash_hamming ----
    pha,         \* first fingerprint argument
    phb,         \* second fingerprint argument
    phd,         \* the distances returned: [ab, ba, aa]
    \* ---- chamfer_best_rotation ----
    cbP,         \* the point cloud, passed as template and as candidate
    cbAngles,    \* angles_deg, in order
    cbRet,       \* the returned (best_score, best_angle)
    \* ---- the operations that take a tolerance, a grid step or a sample step ----
    vcall,       \* the call: operation, value, step
    vres,        \* its outcome
    \* ---- encode_point_cloud / decode_point_cloud ----
    ecloud,      \* the point cloud, coordinates in units of 1/scale
    escale,      \* scale
    eret,        \* the record encoded, the cloud decoded from it and its re-encoding
    \* ---- cluster_entities_connectivity ----
    kents,       \* the key points of each entity
    ktol,        \* tol
    kcell,       \* cell_size argument (0: not given)
    kout,        \* the returned clusters, as the set of their index sets
    \* ---- detect_frame_and_titleblock ----
    titems,      \* items: the line-like entities of the modelspace, in order
    tcfg,        \* tol (in tenths), frame_tol and title_ratio (in tenths)
    tpc,         \* "start", "frame" (first BFS), "title" (second BFS), "done"
    tq,          \* q / q2: the queue of the running BFS; its elements are frame_set / title_set
    thead,       \* head
    touter,      \* outer_border
    tinner,      \* inner
    tret,        \* the returned (exclude_handles, title_bbox), with title_set
    \* ---- compute_descriptor on two orders of one entity list ----
    dents,       \* entities, in the first order
    dorder,      \* the same entities in a second order
    ddesc,       \* <<>> before the calls, then the two descriptors
    \* ---- nested-instance expansion (entity_bbox, _entity_points_and_primitives_xf, _entity_text_items_xf) ----
    bdoc,        \* doc.blocks: block name -> the entities of the block
    btop,        \* the INSERT entity of the outermost call
    bfun,        \* which function runs: "points", "bbox" or "text"
    bstack,      \* the active calls on INSERT entities, outermost first
    bvisited,    \* _visited
    bret,        \* the value returned by the outermost call
    bpc,         \* "start", "run" or "done"
    bexp,        \* history: the block names in the order their expansion began
    \* ---- group_green_entities, the filter before the loops ----
    qmsp,        \* doc.modelspace(): the entities with handle, colour and linetype
    qopts,       \* target_acis, max_entity_diag, exclude_handles, exclude_bbox
    qkept        \* history: the positions in qmsp of the entities appended

ufVars == <<parent, rank, edges, ufRet, ufNoop>>

clVars == <<entities, ctol, cpc, cidx, first_owner, point_buckets, circle_indices, groups>>

mVars == <<mgroups, mbboxes, minput, mgap, mratio, mpc, mrounds>>

rVars == <<rcur, rents, rpad, rgap, rit, rpc, rexit, rout, rdiag>>

gVars == <<gsym0, gsym, ggrid, ggeom0, ggeom, gops>>

lVars == <<libfile, lpc, lmem, lhist, llabels, loverlap>>

xVars == <<xpc, frefs, fcands, fmaxd, ftopk, fmatches, hlib, hcand, hscores, hthr, htopk, hcthr, hmatch>>

phVars == <<pha, phb, phd>>

cbVars == <<cbP, cbAngles, cbRet>>

vVars == <<vcall, vres>>

eVars == <<ecloud, escale, eret>>

kVars == <<kents, ktol, kcell, kout>>

tVars == <<titems, tcfg, tpc, tq, thead, touter, tinner, tret>>

dVars == <<dents, dorder, ddesc>>

bVars == <<bdoc, btop, bfun, bstack, bvisited, bret, bpc, bexp>>

qVars == <<qmsp, qopts, qkept>>

lateVars == <<dVars, bVars, qVars>>

moreVars == <<tVars, lateVars>>

auxVars == <<phVars, cbVars, vVars, eVars, kVars, moreVars>>

restVars == <<gVars, lVars, xVars, auxVars>>

vars == <<parent, rank, edges, ufRet, ufNoop,
          entities, ctol, cpc, cidx, first_owner, point_buckets, circle_indices, groups,
          mgroups, mbboxes, minput, mgap, mratio, mpc, mrounds,
          rcur, rents, rpad, rgap, rit, rpc, rexit, rout, rdiag,
          gsym0, gsym, ggrid, ggeom0, ggeom, gops,
          libfile, lpc, lmem, lhist, llabels, loverlap,
          xpc, frefs, fcands, fmaxd, ftopk, fmatches, hlib, hcand, hscores, hthr, htopk, hcthr, hmatch,
          pha, phb, phd, cbP, cbAngles, cbRet, vcall, vres, ecloud, escale, eret,
          kents, ktol, kcell, kout,
          titems, tcfg, tpc, tq, thead, touter, tinner, tret,
          dents, dorder, ddesc,
          bdoc, btop, bfun, bstack, bvisited, bret, bpc, bexp,
          qmsp, qopts, qkept>>

(***************************************************************************)
(* Generic helpers                                                         *)
(***************************************************************************)
Abs(x) == IF x < 0 THEN -x ELSE x

Min2(a, b) == IF a <= b THEN a ELSE b

Max2(a, b) == IF a >= b THEN a ELSE b

\* the components that a specification does not run stay in these states
ClIdle ==
    /\ entities = <<>>
    /\ ctol = 1
    /\ cpc = "idle"
    /\ cidx = 0
    /\ first_owner = <<>>
    /\ point_buckets = <<>>
    /\ circle_indices = <<>>
    /\ groups = {}

UFIdle ==
    /\ parent = <<>>
    /\ rank = <<>>
    /\ edges = {}
    /\ ufRet = "none"
    /\ ufNoop = "none"

MIdle ==
    /\ mgroups = <<>>
    /\ mbboxes = <<>>
    /\ minput = <<>>
    /\ mgap = 0
    /\ mratio = 0
    /\ mpc = "idle"
    /\ mrounds = 0

RIdle ==
    /\ rcur = <<>>
    /\ rents = {}
    /\ rpad = 0
    /\ rgap = 0
    /\ rit = 0
    /\ rpc = "idle"
    /\ rexit = "none"
    /\ rout = <<>>
    /\ rdiag = <<>>

GIdle ==
    /\ gsym0 = <<>>
    /\ gsym = <<>>
    /\ ggrid = 0
    /\ ggeom0 = <<>>
    /\ ggeom = <<>>
    /\ gops = {}

LIdle ==
    /\ libfile = <<>>
    /\ lpc = <<>>
    /\ lmem = <<>>
    /\ lhist = <<>>
    /\ llabels = <<>>
    /\ loverlap = FALSE

XIdle ==
    /\ xpc = "idle"
    /\ frefs = <<>>
    /\ fcands = <<>>
    /\ fmaxd = 0
    /\ ftopk = 0
    /\ fmatches = <<>>
    /\ hlib = <<>>
    /\ hcand = <<>>
    /\ hscores = <<>>
    /\ hthr = 0
    /\ htopk = 0
    /\ hcthr = 0
    /\ hmatch = <<>>

PhIdle == pha = <<>> /\ phb = <<>> /\ phd = <<>>

CbIdle == cbP = <<>> /\ cbAngles = <<>> /\ cbRet = <<>>

VIdle == vcall = <<>> /\ vres = <<>>

EIdle == ecloud = <<>> /\ escale = 0 /\ eret = <<>>

KIdle == kents = <<>> /\ ktol = 0 /\ kcell = 0 /\ kout = <<>>

TIdle ==
    /\ titems = <<>>
    /\ tcfg = <<>>
    /\ tpc = "idle"
    /\ tq = <<>>
    /\ thead = 0
    /\ touter = {}
    /\ tinner = {}
    /\ tret = <<>>

DIdle == dents = <<>> /\ dorder = <<>> /\ ddesc = <<>>

BIdle ==
    /\ bdoc = <<>>
    /\ btop = <<>>
    /\ bfun = "none"
    /\ bstack = <<>>
    /\ bvisited = {}
    /\ bret = <<>>
    /\ bpc = "idle"
    /\ bexp = <<>>

QIdle == qmsp = <<>> /\ qopts = <<>> /\ qkept = <<>>

LateIdle == DIdle /\ BIdle /\ QIdle

MoreIdle == TIdle /\ LateIdle

AuxIdle == PhIdle /\ CbIdle /\ VIdle /\ EIdle /\ KIdle /\ MoreIdle

RestIdle == GIdle /\ LIdle /\ XIdle /\ AuxIdle

(***************************************************************************)
(* UnionFind                                                               *)
(***************************************************************************)
NumElems == 4

Elems == 0 .. (NumElems - 1)

\* UnionFind.__init__
UFInitParent(n) == [x \in 0 .. (n - 1) |-> x]

UFInitRank(n) == [x \in 0 .. (n - 1) |-> 0]

\* UnionFind.find: the while loop with path halving; returns the new parent
\* array and the root
RECURSIVE UFFind(_, _)
UFFind(p, x) ==
    IF p[x] = x
    THEN [parent |-> p, root |-> x]
    ELSE LET p2 == [p EXCEPT ![x] = p[p[x]]]
         IN UFFind(p2, p2[x])

\* a union that links the elements themselves instead of their roots
UFLinkBad(p, r, a, b, ra, rb) ==
    IF ra = rb THEN [parent |-> p, rank |-> r]
    ELSE IF r[ra] < r[rb] THEN [parent |-> [p EXCEPT ![a] = rb], rank |-> r]
    ELSE IF r[ra] > r[rb] THEN [parent |-> [p EXCEPT ![b] = ra], rank |-> r]
    ELSE [parent |-> [p EXCEPT ![b] = ra], rank |-> [r EXCEPT ![ra] = r[ra] + 1]]

\* UnionFind.union, after the two find calls: link by rank
UFLink(p, r, a, b, ra, rb) ==
    IF ra = rb THEN [parent |-> p, rank |-> r]
    ELSE IF r[ra] < r[rb] THEN [parent |-> [p EXCEPT ![ra] = rb], rank |-> r]
    ELSE IF r[ra] > r[rb] THEN [parent |-> [p EXCEPT ![rb] = ra], rank |-> r]
    ELSE [parent |-> [p EXCEPT ![rb] = ra], rank |-> [r EXCEPT ![ra] = r[ra] + 1]]

\* UnionFind.union
UFUnion(p, r, a, b) ==
    LET fa == UFFind(p, a)
        fb == UFFind(fa.parent, b)
    IN UFLink(fb.parent, r, a, b, fa.root, fb.root)

\* what a call find(x) would return in the array p
UFRoot(p, x) == UFFind(p, x).root

\* the groups read off a UnionFind: { {x : find(x) = r} }
UFGroups(p) ==
    {{y \in DOMAIN p : UFRoot(p, y) = UFRoot(p, x)} : x \in DOMAIN p}

UFInit ==
    /\ parent = UFInitParent(NumElems)
    /\ rank = UFInitRank(NumElems)
    /\ edges = {}
    /\ ufRet = "none"
    /\ ufNoop = "none"
    /\ ClIdle /\ MIdle /\ RIdle /\ RestIdle

\* a call uf.find(x)
FindCall(x) ==
    LET f == UFFind(parent, x)
    IN /\ parent' = f.parent
       /\ ufRet' = IF ufRet = "wrong" \/ f.parent[f.root] # f.root
                      \/ \E y \in Elems : UFRoot(f.parent, y) # UFRoot(parent, y)
                   THEN "wrong"
                   ELSE IF ufRet = "compressed" \/ f.parent # parent THEN "compressed"
                   ELSE "plain"
       /\ UNCHANGED <<rank, edges, ufNoop>>
       /\ UNCHANGED <<clVars, mVars, rVars, restVars>>

\* a call uf.union(a, b)
UnionCall(a, b) ==
    LET u == UFUnion(parent, rank, a, b)
        same == UFRoot(parent, a) = UFRoot(parent, b)
    IN /\ parent' = u.parent
       /\ rank' = u.rank
       /\ edges' = IF a = b THEN edges ELSE edges \cup {{a, b}}
       /\ ufNoop' = IF ~same THEN ufNoop
                    ELSE IF ufNoop # "broken" /\ \A x \in Elems : UFRoot(u.parent, x) = UFRoot(parent, x)
                    THEN "held" ELSE "broken"
       /\ UNCHANGED ufRet
       /\ UNCHANGED <<clVars, mVars, rVars, restVars>>

UFNext ==
    \/ \E x \in Elems : FindCall(x)
    \/ \E a \in Elems, b \in Elems : UnionCall(a, b)

UFSpec == UFInit /\ [][UFNext]_vars

\* the elements linked to x by a chain of the pairs in es
RECURSIVE Reach(_, _)
Reach(es, S) ==
    LET T == S \cup {y \in UNION es : \E e \in es : y \in e /\ e \cap S # {}}
    IN IF T = S THEN S ELSE Reach(es, T)

\* C1: find(a) = find(b) exactly when a and b are linked by a chain of the
\* unions performed so far, and a union of two elements already in one set
\* changes no find result.
C1_FindIffConnected ==
    /\ LET root == [x \in Elems |-> UFRoot(parent, x)]
           linked == [x \in Elems |-> Reach(edges, {x})]
       IN \A a \in Elems, b \in Elems : (root[a] = root[b]) <=> (b \in linked[a])
    /\ ufNoop # "broken"
    /\ ufRet # "wrong"

\* a chain of two unions links two elements never passed to one union, a union
\* inside one set has been repeated and a find has compressed a path
C1_Witness ==
    /\ \E a \in Elems, b \in Elems, c \in Elems :
          /\ a # b /\ b # c /\ a # c
          /\ {a, b} \in edges /\ {b, c} \in edges /\ {a, c} \notin edges
          /\ UFRoot(parent, a) = UFRoot(parent, c)
    /\ ufNoop = "held"
    /\ ufRet = "compressed"
(***************************************************************************)
(* group_green_entities: bucket-key connectivity clustering                *)
(***************************************************************************)
MaxEnts == 3

\* Python's round(n / d) for d > 0: round half to even
RoundDiv(n, d) ==
    LET q == n \div d
        rem == n - q * d
    IN IF 2 * rem < d THEN q
       ELSE IF 2 * rem > d THEN q + 1
       ELSE IF q % 2 = 0 THEN q ELSE q + 1

\* a key that truncates towards minus infinity instead of rounding
qkeyFloor(x, y, tol) == <<x \div tol, y \div tol>>

\* qkey (tol > 0)
qkey(x, y, tol) == <<RoundDiv(x, tol), RoundDiv(y, tol)>>

Line(p0, p1) == [type |-> "LINE", pts |-> <<p0, p1>>, closed |-> FALSE, c |-> <<0, 0>>, r |-> 0]

Polyline(vs, cl) == [type |-> "LWPOLYLINE", pts |-> vs, closed |-> cl, c |-> <<0, 0>>, r |-> 0]

Circle(c0, r0) == [type |-> "CIRCLE", pts |-> <<>>, closed |-> FALSE, c |-> c0, r |-> r0]

\* entity_connection_points
entity_connection_points(e) ==
    IF e.type = "LINE" THEN e.pts
    ELSE IF e.type = "LWPOLYLINE"
    THEN IF e.pts = <<>> THEN <<>>
         ELSE IF e.closed THEN e.pts
         ELSE <<e.pts[1], e.pts[Len(e.pts)]>>
    ELSE <<>>

\* the tolerances and the entities the runs are drawn from: lines sharing an
\* exact endpoint, endpoints one unit apart (in one cell or in adjacent cells,
\* depending on tol), a closed and an open polyline, a far line, and circles
\* with endpoints on, near and off their circumference
Tols == {1, 2}

EntityPool ==
    { Line(<<0, 0>>, <<2, 0>>),
      Line(<<2, 0>>, <<4, 0>>),
      Line(<<4, 0>>, <<4, 2>>),
      Line(<<5, 0>>, <<7, 0>>),
      Line(<<1, 0>>, <<1, 3>>),
      Line(<<5, 2>>, <<6, 2>>),
      Line(<<6, 2>>, <<8, 2>>),
      Line(<<40, 0>>, <<42, 0>>),
      Polyline(<<<<7, 0>>, <<9, 5>>, <<8, 2>>>>, FALSE),
      Polyline(<<<<0, 4>>, <<2, 4>>, <<0, 6>>>>, TRUE),
      Circle(<<2, 2>>, 2),
      Circle(<<8, 4>>, 2) }

\* the state of the two loops
ClState(p, r, fo, pb, ci) ==
    [parent |-> p, rank |-> r, first_owner |-> fo, point_buckets |-> pb, circle_indices |-> ci]

\* group_green_entities, first loop body: one connection point of entity idx
ClaimPoint(st, pt, idx, tol) ==
    LET k == qkey(pt[1], pt[2], tol)
        owned == k \in DOMAIN st.first_owner
        u == IF owned THEN UFUnion(st.parent, st.rank, idx, st.first_owner[k])
             ELSE [parent |-> st.parent, rank |-> st.rank]
        fo == IF owned THEN st.first_owner ELSE (k :> idx) @@ st.first_owner
        old == IF k \in DOMAIN st.point_buckets THEN st.point_buckets[k] ELSE <<>>
        pb == (k :> Append(old, <<pt[1], pt[2], idx>>)) @@ st.point_buckets
    IN ClState(u.parent, u.rank, fo, pb, st.circle_indices)

\* a loop over the connection points that stops after the first one
ClaimPointsFirstOnly(st, pts, i, idx, tol) ==
    IF i > Len(pts) THEN st ELSE ClaimPoint(st, pts[i], idx, tol)

RECURSIVE ClaimPoints(_, _, _, _, _)
ClaimPoints(st, pts, i, idx, tol) ==
    IF i > Len(pts) THEN st
    ELSE ClaimPoints(ClaimPoint(st, pts[i], idx, tol), pts, i + 1, idx, tol)

\* abs(hypot(px - cx, py - cy) - r) <= tol, on squares
OnCircle(px, py, cx, cy, r, tol) ==
    LET d2 == (px - cx) * (px - cx) + (py - cy) * (py - cy)
    IN /\ d2 <= (r + tol) * (r + tol)
       /\ (r - tol <= 0 \/ d2 >= (r - tol) * (r - tol))

\* a key rectangle without the tolerance margin
CircleKeysNoMargin(cx, cy, r, tol) ==
    LET k0 == qkey(cx - r, cy - r, tol)
        k1 == qkey(cx + r, cy + r, tol)
        x0 == Min2(k0[1], k1[1])
        y0 == Min2(k0[2], k1[2])
        h == Max2(k0[2], k1[2]) - y0 + 1
        w == Max2(k0[1], k1[1]) - x0 + 1
    IN [n \in 1 .. (w * h) |-> <<x0 + ((n - 1) \div h), y0 + ((n - 1) % h)>>]

\* the keys scanned for a circle, in scan order (ix outer, iy inner)
CircleKeys(cx, cy, r, tol) ==
    LET k0 == qkey(cx - r - tol, cy - r - tol, tol)
        k1 == qkey(cx + r + tol, cy + r + tol, tol)
        x0 == Min2(k0[1], k1[1])
        y0 == Min2(k0[2], k1[2])
        h == Max2(k0[2], k1[2]) - y0 + 1
        w == Max2(k0[1], k1[1]) - x0 + 1
    IN [n \in 1 .. (w * h) |-> <<x0 + ((n - 1) \div h), y0 + ((n - 1) % h)>>]

\* the points of one bucket, in list order
RECURSIVE ScanBucket(_, _, _, _, _, _)
ScanBucket(u, bucket, i, idx, e, tol) ==
    IF i > Len(bucket) THEN u
    ELSE LET b == bucket[i]
             u2 == IF OnCircle(b[1], b[2], e.c[1], e.c[2], e.r, tol)
                   THEN UFUnion(u.parent, u.rank, idx, b[3])
                   ELSE u
         IN ScanBucket(u2, bucket, i + 1, idx, e, tol)

RECURSIVE ScanKeys(_, _, _, _, _, _, _)
ScanKeys(u, pb, keys, i, idx, e, tol) ==
    IF i > Len(keys) THEN u
    ELSE LET u2 == IF keys[i] \in DOMAIN pb
                   THEN ScanBucket(u, pb[keys[i]], 1, idx, e, tol)
                   ELSE u
         IN ScanKeys(u2, pb, keys, i + 1, idx, e, tol)

\* group_green_entities, second loop: the circle with index idx
ScanCircle(st, es, idx, tol) ==
    LET e == es[idx + 1]
        u == ScanKeys([parent |-> st.parent, rank |-> st.rank], st.point_buckets,
                      CircleKeys(e.c[1], e.c[2], e.r, tol), 1, idx, e, tol)
    IN ClState(u.parent, u.rank, st.first_owner, st.point_buckets, st.circle_indices)

\* a first loop that handles a circle where it stands in the list
ScanEntityInline(st, es, idx, tol) ==
    LET e == es[idx + 1]
    IN IF e.type = "CIRCLE"
       THEN ScanCircle(st, es, idx, tol)
       ELSE ClaimPoints(st, entity_connection_points(e), 1, idx, tol)

\* group_green_entities, first loop: entity idx
ScanEntity(st, es, idx, tol) ==
    LET e == es[idx + 1]
    IN IF e.type = "CIRCLE"
       THEN ClState(st.parent, st.rank, st.first_owner, st.point_buckets, Append(st.circle_indices, idx))
       ELSE ClaimPoints(st, entity_connection_points(e), 1, idx, tol)

ClCur == ClState(parent, rank, first_owner, point_buckets, circle_indices)

ClSet(st) ==
    /\ parent' = st.parent
    /\ rank' = st.rank
    /\ first_owner' = st.first_owner
    /\ point_buckets' = st.point_buckets
    /\ circle_indices' = st.circle_indices

ClInit ==
    /\ \E n \in 1 .. MaxEnts : entities \in [1 .. n -> EntityPool]
    /\ ctol \in Tols
    /\ cpc = "points"
    /\ cidx = 0
    /\ parent = UFInitParent(Len(entities))
    /\ rank = UFInitRank(Len(entities))
    /\ first_owner = <<>>
    /\ point_buckets = <<>>
    /\ circle_indices = <<>>
    /\ groups = {}
    /\ edges = {}
    /\ ufRet = "none"
    /\ ufNoop = "none"
    /\ MIdle /\ RIdle /\ RestIdle

\* one round of "for idx, e in enumerate(entities)"
ClScanEntity ==
    /\ cpc = "points"
    /\ cidx < Len(entities)
    /\ ClSet(ScanEntity(ClCur, entities, cidx, ctol))
    /\ cidx' = cidx + 1
    /\ UNCHANGED <<entities, ctol, cpc, groups, edges, ufRet, ufNoop, mVars, rVars, restVars>>

\* the first loop ends
ClPointsDone ==
    /\ cpc = "points"
    /\ cidx = Len(entities)
    /\ cpc' = "circles"
    /\ cidx' = 0
    /\ UNCHANGED <<entities, ctol, parent, rank, first_owner, point_buckets, circle_indices,
                   groups, edges, ufRet, ufNoop, mVars, rVars, restVars>>

\* one round of "for idx in circle_indices"
ClScanCircle ==
    /\ cpc = "circles"
    /\ cidx < Len(circle_indices)
    /\ ClSet(ScanCircle(ClCur, entities, circle_indices[cidx + 1], ctol))
    /\ cidx' = cidx + 1
    /\ UNCHANGED <<entities, ctol, cpc, groups, edges, ufRet, ufNoop, mVars, rVars, restVars>>

\* the second loop ends: groups[uf.find(i)].append(i), return
ClCollect ==
    /\ cpc = "circles"
    /\ cidx = Len(circle_indices)
    /\ groups' = UFGroups(parent)
    /\ cpc' = "done"
    /\ UNCHANGED <<entities, ctol, cidx, parent, rank, first_owner, point_buckets,
                   circle_indices, edges, ufRet, ufNoop, mVars, rVars, restVars>>

ClNext == ClScanEntity \/ ClPointsDone \/ ClScanCircle \/ ClCollect

ClusterSpec == ClInit /\ [][ClNext]_vars
\* group_green_entities as one function of the entity list: both loops, then
\* the groups
RECURSIVE ScanEntities(_, _, _, _)
ScanEntities(st, es, idx, tol) ==
    IF idx >= Len(es) THEN st
    ELSE ScanEntities(ScanEntity(st, es, idx, tol), es, idx + 1, tol)

RECURSIVE ScanCircles(_, _, _, _)
ScanCircles(st, es, i, tol) ==
    IF i > Len(st.circle_indices) THEN st
    ELSE ScanCircles(ScanCircle(st, es, st.circle_indices[i], tol), es, i + 1, tol)

group_green_entities(es, tol) ==
    LET st0 == ClState(UFInitParent(Len(es)), UFInitRank(Len(es)), <<>>, <<>>, <<>>)
        st1 == ScanEntities(st0, es, 0, tol)
        st2 == ScanCircles(st1, es, 1, tol)
    IN UFGroups(st2.parent)

\* the exchanges of two positions of a list of n entities (the identity is the
\* exchange of a position with itself)
Swaps(n) ==
    {[i \in 1 .. n |-> IF i = a THEN b ELSE IF i = b THEN a ELSE i] : a \in 1 .. n, b \in 1 .. n}

\* the partition that a run on the list reordered by f yields, in the
\* indices of the original list
GroupsUnder(f) ==
    LET es2 == [i \in 1 .. Len(entities) |-> entities[f[i]]]
    IN {{f[j + 1] - 1 : j \in g} : g \in group_green_entities(es2, ctol)}

\* the entities that put a point into the bucket k
Claimants(k) == {point_buckets[k][i][3] : i \in 1 .. Len(point_buckets[k])}

\* C2: the partition into clusters does not depend on the order in which the
\* entities are presented: for every list, the run on the list with any two
\* positions exchanged yields the same sets of entities.  Every list over the
\* pool is an initial state and every reordering is a composition of
\* exchanges, so this is invariance under every reordering.
C2_OrderIndependent ==
    cpc = "done" => \A f \in Swaps(Len(entities)) : GroupsUnder(f) = groups

\* a bucket claimed by two entities (its first owner depends on the order) and
\* a circle clustered with another entity
C2_Witness ==
    /\ cpc = "done"
    /\ \E k \in DOMAIN point_buckets : Cardinality(Claimants(k)) >= 2
    /\ \E i \in 1 .. Len(entities) : entities[i].type = "CIRCLE"
    /\ \E g \in groups : Cardinality(g) >= 2 /\ \E i \in g : entities[i + 1].type = "CIRCLE"

Idxs == 0 .. (Len(entities) - 1)

IsCircle(i) == entities[i + 1].type = "CIRCLE"

ConnPts(i) ==
    LET cp == entity_connection_points(entities[i + 1])
    IN {cp[n] : n \in 1 .. Len(cp)}

GroupOf(i) == CHOOSE g \in groups : i \in g

Dist2(p, q) == (p[1] - q[1]) * (p[1] - q[1]) + (p[2] - q[2]) * (p[2] - q[2])

\* the circle i has a connection point of j within tol of its circumference
Touches(i, j) ==
    /\ IsCircle(i) /\ ~IsCircle(j)
    /\ \E p \in ConnPts(j) :
          LET d2 == Dist2(p, entities[i + 1].c)
              r == entities[i + 1].r
          IN /\ d2 <= (r + ctol) * (r + ctol)
             /\ (r <= ctol \/ d2 >= (r - ctol) * (r - ctol))

\* every connection point of j is 2*tol or more off the circumference of i
FarOff(i, j) ==
    /\ IsCircle(i) /\ ~IsCircle(j)
    /\ \A p \in ConnPts(j) :
          LET d2 == Dist2(p, entities[i + 1].c)
              r == entities[i + 1].r
          IN \/ d2 >= (r + 2 * ctol) * (r + 2 * ctol)
             \/ (r >= 2 * ctol /\ d2 <= (r - 2 * ctol) * (r - 2 * ctol))

\* C9: a circle and a non-circle entity with a connection point within tol of
\* the circumference are in one cluster; a circle and an entity whose every
\* connection point is 2*tol or more off the circumference, with no third
\* entity in their clusters, are in different clusters.
C9_CircleTangency ==
    cpc = "done" =>
        \A i \in Idxs, j \in Idxs :
            /\ Touches(i, j) => GroupOf(i) = GroupOf(j)
            /\ (FarOff(i, j) /\ GroupOf(i) \subseteq {i, j} /\ GroupOf(j) \subseteq {i, j})
                  => GroupOf(i) # GroupOf(j)

\* a circle clustered with an entity whose point lies exactly tol outside the
\* circumference on the circle's axis (the last column of the scanned
\* rectangle), and an entity 2*tol or more off that stays apart
C9_Witness ==
    /\ cpc = "done"
    /\ \E i \in Idxs, j \in Idxs, k \in Idxs :
          /\ Touches(i, j) /\ GroupOf(i) = GroupOf(j)
          /\ \E p \in ConnPts(j) :
                p[1] = entities[i + 1].c[1] + entities[i + 1].r + ctol /\ p[2] = entities[i + 1].c[2]
          /\ FarOff(i, k) /\ GroupOf(k) = {k}

\* i and j are directly joined: two non-circle entities with connection
\* points in one bucket, or a circle and an entity touching it
Joined(i, j) ==
    \/ /\ ~IsCircle(i) /\ ~IsCircle(j)
       /\ \E p \in ConnPts(i), q \in ConnPts(j) : qkey(p[1], p[2], ctol) = qkey(q[1], q[2], ctol)
    \/ Touches(i, j)
    \/ Touches(j, i)

JoinEdges == {{i, j} : i \in Idxs, j \in Idxs} \cap {e \in SUBSET Idxs : \E i \in e, j \in e : i # j /\ Joined(i, j)}

\* the nearest connection point of any other entity is 10*tol or more away
\* from the line i, and no circle touches it
Isolated(i) ==
    /\ entities[i + 1].type = "LINE"
    /\ \A j \in Idxs \ {i} :
          /\ \A p \in ConnPts(i), q \in ConnPts(j) : Dist2(p, q) >= (10 * ctol) * (10 * ctol)
          /\ ~Touches(j, i)

\* C10: two lines sharing an endpoint are in one cluster, a line 10*tol away
\* from every connection point of the others is a cluster of its own, and two
\* non-circle entities are in one cluster exactly when a chain of entities
\* sharing bucket keys or touching circles joins them.
C10_SharedEndpointChain ==
    cpc = "done" =>
        /\ LET es == JoinEdges
               chain == [i \in Idxs |-> Reach(es, {i})]
           IN \A i \in Idxs, j \in Idxs :
                 (~IsCircle(i) /\ ~IsCircle(j)) =>
                     ((GroupOf(i) = GroupOf(j)) <=> (j \in chain[i]))
        /\ \A i \in Idxs, j \in Idxs :
              (entities[i + 1].type = "LINE" /\ entities[j + 1].type = "LINE"
                  /\ ConnPts(i) \cap ConnPts(j) # {}) => GroupOf(i) = GroupOf(j)
        /\ \A i \in Idxs : Isolated(i) => GroupOf(i) = {i}

\* two distinct lines with a common endpoint in one cluster, and a third line
\* 10*tol away in a cluster of its own
C10_Witness ==
    /\ cpc = "done"
    /\ \E i \in Idxs, j \in Idxs, k \in Idxs :
          /\ i # j /\ entities[i + 1] # entities[j + 1]
          /\ entities[i + 1].type = "LINE" /\ entities[j + 1].type = "LINE"
          /\ ConnPts(i) \cap ConnPts(j) # {}
          /\ GroupOf(i) = GroupOf(j)
          /\ Isolated(k) /\ GroupOf(k) = {k}
(***************************************************************************)
(* Bounding boxes: merge_by_bbox_iterative and refine_and_merge_bboxes     *)
(* A box is <<minx, miny, maxx, maxy>>.                                    *)
(***************************************************************************)
MaxBoxes == 3

ChainLen == 53

max_iters == 50

\* bbox_union
bbox_union(a, b) == <<Min2(a[1], b[1]), Min2(a[2], b[2]), Max2(a[3], b[3]), Max2(a[4], b[4])>>

\* bbox_intersects
bbox_intersects(a, b) == ~(a[3] < b[1] \/ b[3] < a[1] \/ a[4] < b[2] \/ b[4] < a[2])

\* bbox_contains
bbox_contains(outer, inner) ==
    outer[1] <= inner[1] /\ outer[2] <= inner[2] /\ outer[3] >= inner[3] /\ outer[4] >= inner[4]

\* bbox_min_distance, squared: dx * dx + dy * dy
bbox_min_distance2(a, b) ==
    LET dx == IF a[3] < b[1] THEN b[1] - a[3] ELSE IF b[3] < a[1] THEN a[1] - b[3] ELSE 0
        dy == IF a[4] < b[2] THEN b[2] - a[4] ELSE IF b[4] < a[2] THEN a[2] - b[4] ELSE 0
    IN dx * dx + dy * dy

BoxArea(a) == (a[3] - a[1]) * (a[4] - a[2])

\* bbox_should_merge, the size_ratio test: max(area_a, area_b) / min(area_a,
\* area_b) < size_ratio, where an area of 0 counts as 1e-9 (size_ratio is
\* far below 1e9)
RatioBelow(a, b, size_ratio) ==
    LET hi == Max2(BoxArea(a), BoxArea(b))
        lo == Min2(BoxArea(a), BoxArea(b))
    IN IF lo > 0 THEN hi < size_ratio * lo
       ELSE IF hi > 0 THEN FALSE
       ELSE 1 < size_ratio

\* a merge test that looks at the separating distance only
bbox_should_merge_gap_only(a, b, merge_gap, size_ratio) ==
    IF size_ratio > 0 /\ RatioBelow(a, b, size_ratio) THEN FALSE
    ELSE IF merge_gap <= 0 THEN FALSE
    ELSE bbox_min_distance2(a, b) < merge_gap * merge_gap

\* bbox_should_merge
bbox_should_merge(a, b, merge_gap, size_ratio) ==
    IF size_ratio > 0 /\ RatioBelow(a, b, size_ratio) THEN FALSE
    ELSE IF bbox_intersects(a, b) THEN TRUE
    ELSE IF merge_gap <= 0 THEN FALSE
    ELSE bbox_min_distance2(a, b) < merge_gap * merge_gap

\* a pair loop that tests each box against its successor in the list only
RECURSIVE MergePairsAdjacent(_, _, _, _, _, _)
MergePairsAdjacent(u, bxs, i, j, merge_gap, size_ratio) ==
    IF i + 1 >= Len(bxs) THEN u
    ELSE MergePairsAdjacent(
             IF bbox_should_merge(bxs[i + 1], bxs[i + 2], merge_gap, size_ratio)
             THEN UFUnion(u.parent, u.rank, i, i + 1)
             ELSE u,
             bxs, i + 1, i + 2, merge_gap, size_ratio)

\* merge_by_bbox_iterative: the double loop "for i ... for j in range(i + 1, n)"
RECURSIVE MergePairs(_, _, _, _, _, _)
MergePairs(u, bxs, i, j, merge_gap, size_ratio) ==
    IF i >= Len(bxs) THEN u
    ELSE IF j >= Len(bxs) THEN MergePairs(u, bxs, i + 1, i + 2, merge_gap, size_ratio)
    ELSE LET u2 == IF bbox_should_merge(bxs[i + 1], bxs[j + 1], merge_gap, size_ratio)
                   THEN UFUnion(u.parent, u.rank, i, j)
                   ELSE u
         IN MergePairs(u2, bxs, i, j + 1, merge_gap, size_ratio)

SetMin(S) == CHOOSE x \in S : \A y \in S : x <= y

\* sorted(members)
RECURSIVE SortedSeq(_)
SortedSeq(S) == IF S = {} THEN <<>> ELSE <<SetMin(S)>> \o SortedSeq(S \ {SetMin(S)})

\* sorted(merged.keys(), key=lambda r: min(merged[r])), as the member sets
RECURSIVE BlocksByMin(_)
BlocksByMin(B) ==
    IF B = {} THEN <<>>
    ELSE LET b == CHOOSE x \in B : \A y \in B : SetMin(x) <= SetMin(y)
         IN <<b>> \o BlocksByMin(B \ {b})

\* g.extend(cur_groups[m]) for m in members
RECURSIVE ConcatGroups(_, _, _)
ConcatGroups(gs, ms, i) ==
    IF i > Len(ms) THEN <<>> ELSE gs[ms[i] + 1] \o ConcatGroups(gs, ms, i + 1)

\* a union that keeps the box of the first member
UnionBoxesFirstOnly(bxs, ms, i) == bxs[ms[1] + 1]

\* bb = bbox_union(bb, cur_bboxes[m]) for m in members
RECURSIVE UnionBoxes(_, _, _)
UnionBoxes(bxs, ms, i) ==
    IF i = Len(ms) THEN bxs[ms[i] + 1]
    ELSE bbox_union(bxs[ms[i] + 1], UnionBoxes(bxs, ms, i + 1))

\* one round of the while loop of merge_by_bbox_iterative: done is the
\* "len(merged) == n" return
MergeRound(gs, bxs, merge_gap, size_ratio) ==
    LET n == Len(bxs)
        u == MergePairs([parent |-> UFInitParent(n), rank |-> UFInitRank(n)], bxs, 0, 1,
                        merge_gap, size_ratio)
        blocks == BlocksByMin(UFGroups(u.parent))
    IN IF Len(blocks) = n
       THEN [done |-> TRUE, groups |-> gs, bboxes |-> bxs]
       ELSE [done |-> FALSE,
             groups |-> [k \in 1 .. Len(blocks) |-> ConcatGroups(gs, SortedSeq(blocks[k]), 1)],
             bboxes |-> [k \in 1 .. Len(blocks) |-> UnionBoxes(bxs, SortedSeq(blocks[k]), 1)]]

\* merge_by_bbox_iterative: the while loop, given the result m of a round
RECURSIVE merge_by_bbox_iterative(_, _, _, _)
MergeLoop(m, merge_gap, size_ratio) ==
    IF m.done THEN m ELSE merge_by_bbox_iterative(m.groups, m.bboxes, merge_gap, size_ratio)

\* merge_by_bbox_iterative
merge_by_bbox_iterative(gs, bxs, merge_gap, size_ratio) ==
    MergeLoop(MergeRound(gs, bxs, merge_gap, size_ratio), merge_gap, size_ratio)

\* the gaps, size ratios and boxes the runs are drawn from: boxes that
\* overlap, touch, lie 1 and 2 apart along an axis and diagonally, and boxes
\* of equal and of different area
Gaps == {0, 1, 2}

Ratios == {0, 2}

BoxPool ==
    { <<0, 0, 2, 2>>, <<1, 1, 3, 3>>, <<2, 0, 4, 2>>, <<3, 0, 4, 1>>, <<5, 0, 7, 2>>,
      <<6, 0, 7, 1>>, <<8, 3, 9, 4>>, <<9, 0, 10, 2>>, <<0, 4, 1, 5>>, <<0, 0, 10, 6>> }

DummyGroups(n) == [i \in 1 .. n |-> <<i - 1>>]

MInit ==
    /\ \E n \in 1 .. MaxBoxes : minput \in [1 .. n -> BoxPool]
    /\ mbboxes = minput
    /\ mgroups = DummyGroups(Len(minput))
    /\ mgap \in Gaps
    /\ mratio \in Ratios
    /\ mpc = "run"
    /\ mrounds = 0
    /\ UFIdle /\ ClIdle /\ RIdle /\ RestIdle

\* a round of the while loop that merges some boxes
MergeStep ==
    /\ mpc = "run"
    /\ LET m == MergeRound(mgroups, mbboxes, mgap, mratio)
       IN /\ ~m.done
          /\ mgroups' = m.groups
          /\ mbboxes' = m.bboxes
    /\ mrounds' = mrounds + 1
    /\ UNCHANGED <<minput, mgap, mratio, mpc, ufVars, clVars, rVars, restVars>>

\* the round that merges nothing: return cur_groups, cur_bboxes
MergeReturn ==
    /\ mpc = "run"
    /\ MergeRound(mgroups, mbboxes, mgap, mratio).done
    /\ mpc' = "done"
    /\ UNCHANGED <<mgroups, mbboxes, minput, mgap, mratio, mrounds, ufVars, clVars, rVars, restVars>>

MNext == MergeStep \/ MergeReturn

\* the sort key (b[0], b[1], b[2], b[3])
BoxLess(a, b) ==
    \/ a[1] < b[1]
    \/ a[1] = b[1] /\ a[2] < b[2]
    \/ a[1] = b[1] /\ a[2] = b[2] /\ a[3] < b[3]
    \/ a[1] = b[1] /\ a[2] = b[2] /\ a[3] = b[3] /\ a[4] < b[4]

\* the number of boxes of the list that sort before position i (ties keep
\* the list order: sorted is stable)
BoxRank(bxs, i) ==
    Cardinality({j \in 1 .. Len(bxs) : BoxLess(bxs[j], bxs[i]) \/ (bxs[j] = bxs[i] /\ j < i)})

\* sorted(bboxes, key=lambda b: (b[0], b[1], b[2], b[3]))
SortBoxes(bxs) ==
    [k \in 1 .. Len(bxs) |-> bxs[CHOOSE i \in 1 .. Len(bxs) : BoxRank(bxs, i) = k - 1]]

SetMax(S) == CHOOSE x \in S : \A y \in S : x >= y

\* compute_bbox_for_entity_bboxes of a non-empty collection, before the pad:
\* the running min and max of each coordinate
UnionOfSet(S) ==
    <<SetMin({e[1] : e \in S}), SetMin({e[2] : e \in S}),
      SetMax({e[3] : e \in S}), SetMax({e[4] : e \in S})>>

\* refine_and_merge_bboxes, the refine loop body for one merged box:
\* compute_bbox_for_entity_bboxes of the entity boxes inside it, or the box
\* itself when there is none
RefineBox(bb, ents, pad) ==
    LET inside == {e \in ents : bbox_contains(bb, e)}
    IN IF inside = {} THEN bb
       ELSE LET u == UnionOfSet(inside)
            IN <<u[1] - pad, u[2] - pad, u[3] + pad, u[4] + pad>>

\* one round of the while loop of refine_and_merge_bboxes after the cap
\* test: merge, refine, merge again, sort
RefineRound(cur, ents, pad, merge_gap) ==
    LET merged == merge_by_bbox_iterative(DummyGroups(Len(cur)), cur, merge_gap, 0).bboxes
        refined == [k \in 1 .. Len(merged) |-> RefineBox(merged[k], ents, pad)]
        stabilized == merge_by_bbox_iterative(DummyGroups(Len(refined)), refined, merge_gap, 0).bboxes
    IN SortBoxes(stabilized)

\* a cap test that lets one more round run
CapReachedLate(it) == it > max_iters + 1

\* "if it > max_iters"
CapReached(it) == it > max_iters

\* len(stabilized) == len(cur) and all(_bbox_close(...)): the coordinates
\* are integers, so closeness within 1e-6 is equality
ListsClose(a, b) == Len(a) = Len(b) /\ \A i \in 1 .. Len(a) : a[i] = b[i]

Pads == {0, 1}

RefBoxPool == { <<0, 0, 2, 2>>, <<1, 1, 3, 3>>, <<3, 0, 4, 1>>, <<5, 0, 7, 2>>, <<9, 0, 10, 2>> }

EntBoxPool == { <<0, 0, 1, 1>>, <<2, 2, 3, 3>>, <<3, 0, 5, 1>>, <<6, 1, 8, 2>>, <<8, 0, 9, 1>> }

\* a row of unit entity boxes, each reached only after the refined box has
\* grown by the pad over its neighbour
ChainEnts(n) == {<<j, 0, j + 1, 1>> : j \in 0 .. (n - 1)}

RInit ==
    /\ \/ /\ \E n \in 1 .. MaxBoxes : \E bxs \in [1 .. n -> RefBoxPool] : rcur = SortBoxes(bxs)
          /\ rents \in SUBSET EntBoxPool
          /\ rpad \in Pads
          /\ rgap \in Gaps
       \/ /\ rcur = <<(<<0, 0, 1, 1>>)>>
          /\ \E n \in (ChainLen - 4) .. ChainLen : rents = ChainEnts(n)
          /\ rpad = 1
          /\ rgap = 0
    /\ rit = 0
    /\ rpc = "run"
    /\ rexit = "none"
    /\ rout = <<>>
    /\ rdiag = <<>>
    /\ UFIdle /\ ClIdle /\ MIdle /\ RestIdle

\* it += 1; if it > max_iters: return cur_bboxes
RefineCapReturn ==
    /\ rpc = "run"
    /\ CapReached(rit + 1)
    /\ rit' = rit + 1
    /\ rout' = rcur
    /\ rexit' = "cap"
    /\ rpc' = "done"
    /\ UNCHANGED <<rcur, rents, rpad, rgap, rdiag, ufVars, clVars, mVars, restVars>>

\* a round whose result equals cur_bboxes: return stabilized_bboxes
RefineStableReturn ==
    /\ rpc = "run"
    /\ ~CapReached(rit + 1)
    /\ LET st == RefineRound(rcur, rents, rpad, rgap)
       IN /\ ListsClose(st, rcur)
          /\ rout' = st
    /\ rit' = rit + 1
    /\ rexit' = "stable"
    /\ rpc' = "done"
    /\ UNCHANGED <<rcur, rents, rpad, rgap, rdiag, ufVars, clVars, mVars, restVars>>

\* a round whose result differs: cur_bboxes = stabilized_bboxes
RefineContinue ==
    /\ rpc = "run"
    /\ ~CapReached(rit + 1)
    /\ LET st == RefineRound(rcur, rents, rpad, rgap)
       IN /\ ~ListsClose(st, rcur)
          /\ rcur' = st
    /\ rit' = rit + 1
    /\ UNCHANGED <<rents, rpad, rgap, rpc, rexit, rout, rdiag, ufVars, clVars, mVars, restVars>>

RNext == RefineCapReturn \/ RefineStableReturn \/ RefineContinue

\* the two functions side by side: a run of merge_by_bbox_iterative or a run
\* of refine_and_merge_bboxes
BBoxSpec == (MInit \/ RInit) /\ [][MNext \/ RNext]_vars

\* the rounds of the refine loop whose body ran
RoundsRun == IF rexit = "cap" THEN rit - 1 ELSE rit

\* C4: refine_and_merge_bboxes returns after at most 50 rounds: every step of
\* a run is taken before the return and advances the round counter, the
\* counter never passes the cap, and at return at most 50 rounds have run, on
\* the stable exit and on the cap exit alike.
C4_RefineTerminates ==
    /\ [](/\ rit <= max_iters + 1
          /\ RoundsRun <= max_iters
          /\ (rpc = "done" => rexit \in {"stable", "cap"})
          /\ (rexit = "cap" => rit = max_iters + 1))
    /\ [][rpc = "run" /\ rit' = rit + 1]_rVars

\* the run that returns through the cap, after 50 rounds that each changed
\* the list
C4_Witness == rpc = "done" /\ rexit = "cap" /\ RoundsRun = max_iters

NoMergeablePair(bxs, merge_gap, size_ratio) ==
    \A i \in 1 .. Len(bxs), j \in 1 .. Len(bxs) :
        i # j => ~bbox_should_merge(bxs[i], bxs[j], merge_gap, size_ratio)

\* C5: no two distinct boxes of the list returned by refine_and_merge_bboxes
\* (stable exit or cap exit) or by merge_by_bbox_iterative satisfy
\* bbox_should_merge with the gap and size ratio of the call.
C5_OutputNotMergeable ==
    /\ rpc = "done" => NoMergeablePair(rout, rgap, 0)
    /\ mpc = "done" => NoMergeablePair(mbboxes, mgap, mratio)

\* a refine run that merged boxes and still returns several
C5_Witness ==
    /\ rpc = "done"
    /\ Len(rout) >= 2
    /\ rit >= 2
    /\ rgap > 0

\* the original statement of C6: two overlapping input boxes always come out
\* as their union, whatever the size ratio
C6_Original ==
    (mpc = "done" /\ Len(minput) = 2) =>
        /\ bbox_intersects(minput[1], minput[2]) => mbboxes = <<bbox_union(minput[1], minput[2])>>
        /\ bbox_min_distance2(minput[1], minput[2]) > mgap * mgap => mbboxes = minput

\* C6 (amended): two input boxes that overlap come out as the single box that
\* is their union when the size-ratio test is off or their area ratio reaches
\* size_ratio; two boxes farther apart than the gap (gap >= 0) come out
\* unchanged.
C6_TwoBoxes ==
    (mpc = "done" /\ Len(minput) = 2) =>
        /\ (bbox_intersects(minput[1], minput[2])
               /\ (mratio <= 0 \/ ~RatioBelow(minput[1], minput[2], mratio)))
              => mbboxes = <<bbox_union(minput[1], minput[2])>>
        /\ bbox_min_distance2(minput[1], minput[2]) > mgap * mgap => mbboxes = minput

\* the members of the k-th group of merge_by_bbox_iterative
MembersOf(k) == {mgroups[k][p] : p \in 1 .. Len(mgroups[k])}

\* C28: after every round of merge_by_bbox_iterative, and in its result, the
\* groups partition the members of the input groups, every member in exactly
\* one group and once in it, and the box of each group is the union of the
\* input boxes of its members
C28_GroupsPartitionBoxesCover ==
    mpc \in {"run", "done"} =>
        /\ Len(mgroups) = Len(mbboxes)
        /\ \A i \in 0 .. (Len(minput) - 1) :
              Cardinality({kp \in {<<k, p>> : k \in 1 .. Len(mgroups), p \in 1 .. MaxBoxes} :
                              kp[2] <= Len(mgroups[kp[1]]) /\ mgroups[kp[1]][kp[2]] = i}) = 1
        /\ \A k \in 1 .. Len(mgroups) :
              /\ MembersOf(k) # {}
              /\ MembersOf(k) \subseteq 0 .. (Len(minput) - 1)
              /\ mbboxes[k] = UnionOfSet({minput[i + 1] : i \in MembersOf(k)})

\* two rounds of merging: a group of three input boxes, built in a second
\* round from a group of two, next to the box of their union
C28_Witness ==
    /\ mpc = "done"
    /\ mrounds >= 2
    /\ \E k \in 1 .. Len(mgroups) :
          Cardinality(MembersOf(k)) >= 3 /\ \A i \in MembersOf(k) : mbboxes[k] # minput[i + 1]

\* the merged boxes the round that starts from cur_bboxes refines
MergedOfRound == merge_by_bbox_iterative(DummyGroups(Len(rcur)), rcur, rgap, 0).bboxes

\* the boxes of a list are refined to boxes they contain; a box with no
\* entity box inside is kept, any other becomes the padded union of the
\* entity boxes inside it
Tightened(merged) ==
    \A k \in 1 .. Len(merged) :
        LET inside == {e \in rents : bbox_contains(merged[k], e)}
            new_bb == RefineBox(merged[k], rents, rpad)
        IN /\ inside = {} => new_bb = merged[k]
           /\ inside # {} =>
                 new_bb = <<UnionOfSet(inside)[1] - rpad, UnionOfSet(inside)[2] - rpad,
                            UnionOfSet(inside)[3] + rpad, UnionOfSet(inside)[4] + rpad>>
           /\ bbox_contains(merged[k], new_bb)

\* without pad the refine step tightens
C26_TightensWithoutPad ==
    rpc = "run" /\ rpad = 0 => \E merged \in {MergedOfRound} : Tightened(merged)

\* C26: the refine step tightens: each refined box is the union of the entity
\* bboxes contained in the merged box, plus pad, and is contained in the
\* merged box it was computed from; a merged box containing no entity bbox
\* is kept unchanged
C26_RefineTightens ==
    rpc = "run" => \E merged \in {MergedOfRound} : Tightened(merged)

\* two overlapping boxes of sufficiently different area merged under an
\* active size ratio
C6_Witness ==
    /\ mpc = "done" /\ Len(minput) = 2
    /\ minput[1] # minput[2]
    /\ bbox_intersects(minput[1], minput[2])
    /\ mratio > 0
    /\ mbboxes = <<bbox_union(minput[1], minput[2])>>
\* at the cap the function returns the list of the last round
C15_CapReturnsLastList == rpc = "done" /\ rexit = "cap" => rout = rcur

\* C15: when the loop of refine_and_merge_bboxes reaches its iteration cap it
\* returns the last computed list and surfaces a warning, so that a capped
\* result can be told from a converged one
C15_CapIsSurfaced ==
    rpc = "done" /\ rexit = "cap" => rout = rcur /\ rdiag # <<>>

(***************************************************************************)
(* _compute_geom_from_bbox: geometry canonicalisation                      *)
(* Entity coordinates and radii are integers; sampled points are in tenths *)
(* of a unit, with the cosine and sine of the sample angles kept to one    *)
(* decimal. Arithmetic is exact: the rounding of the floating-point        *)
(* operations is not part of the model.                                    *)
(***************************************************************************)
MaxSym == 2

\* 10 * cos(d degrees) to the nearest integer, d a multiple of 30 or 45
Cos10(d) ==
    LET m == d % 360
    IN CASE m = 0 -> 10
         [] m \in {30, 330} -> 9
         [] m \in {45, 315} -> 7
         [] m \in {60, 300} -> 5
         [] m \in {90, 270} -> 0
         [] m \in {120, 240} -> -5
         [] m \in {135, 225} -> -7
         [] m \in {150, 210} -> -9
         [] m = 180 -> -10

Sin10(d) == Cos10(d + 270)

\* the entities of a symbol: a LINE, a CIRCLE, an ARC (angles in degrees)
GLine(x0, y0, x1, y1) ==
    [type |-> "LINE", x0 |-> x0, y0 |-> y0, x1 |-> x1, y1 |-> y1, r |-> 0, a0 |-> 0, a1 |-> 0]

GCircle(cx, cy, r) ==
    [type |-> "CIRCLE", x0 |-> cx, y0 |-> cy, x1 |-> 0, y1 |-> 0, r |-> r, a0 |-> 0, a1 |-> 0]

GArc(cx, cy, r, a0, a1) ==
    [type |-> "ARC", x0 |-> cx, y0 |-> cy, x1 |-> 0, y1 |-> 0, r |-> r, a0 |-> a0, a1 |-> a1]

\* _sample_arc_points with n = 7: "if a1f < a0f: a1f += math.tau", then 7
\* angles a0 + step * i
ArcSweep(a0, a1) == IF a1 < a0 THEN a1 + 360 - a0 ELSE a1 - a0

sample_arc_points(cx, cy, r, a0, a1) ==
    [i \in 1 .. 7 |->
        <<10 * cx + r * Cos10(a0 + ((i - 1) * ArcSweep(a0, a1)) \div 6),
          10 * cy + r * Sin10(a0 + ((i - 1) * ArcSweep(a0, a1)) \div 6)>>]

\* _entity_points_and_primitives_xf with the identity matrix: the points
EntityPoints(e) ==
    CASE e.type = "LINE" -> << <<10 * e.x0, 10 * e.y0>>, <<10 * e.x1, 10 * e.y1>> >>
      [] e.type = "CIRCLE" ->
            [i \in 1 .. 8 |-> <<10 * e.x0 + e.r * Cos10(45 * (i - 1)),
                                10 * e.y0 + e.r * Sin10(45 * (i - 1))>>]
      [] e.type = "ARC" -> sample_arc_points(e.x0, e.y0, e.r, e.a0, e.a1)

\* _entity_points_and_primitives_xf: the primitive, one per entity
EntityPrim(e) ==
    CASE e.type = "LINE" ->
            [type |-> "LINE", cx |-> 0, cy |-> 0, r |-> 0,
             p0x |-> 10 * e.x0, p0y |-> 10 * e.y0, p1x |-> 10 * e.x1, p1y |-> 10 * e.y1]
      [] e.type = "CIRCLE" ->
            [type |-> "CIRCLE", cx |-> 10 * e.x0, cy |-> 10 * e.y0, r |-> 10 * e.r,
             p0x |-> 0, p0y |-> 0, p1x |-> 0, p1y |-> 0]
      [] e.type = "ARC" ->
            LET pts == EntityPoints(e)
            IN [type |-> "ARC", cx |-> 10 * e.x0, cy |-> 10 * e.y0, r |-> 10 * e.r,
                p0x |-> pts[1][1], p0y |-> pts[1][2], p1x |-> pts[7][1], p1y |-> pts[7][2]]

\* all_pts.extend(pts) over the entities
RECURSIVE AllPts(_, _)
AllPts(sym, i) == IF i > Len(sym) THEN <<>> ELSE EntityPoints(sym[i]) \o AllPts(sym, i + 1)

\* all_prims.extend(prims) over the entities
AllPrims(sym) == [i \in 1 .. Len(sym) |-> EntityPrim(sym[i])]

RECURSIVE SumCoord(_, _, _)
SumCoord(pts, c, i) == IF i > Len(pts) THEN 0 ELSE pts[i][c] + SumCoord(pts, c, i + 1)
\* _normalize_points without the divisions: n, the coordinate sums, and m2,
\* the largest squared distance of a point from the centroid, times n * n
\* (so that the centroid is (sx / n, sy / n) and max_r is sqrt(m2) / n,
\* in tenths)
NormInfo(pts) ==
    LET n == Len(pts)
        sx == SumCoord(pts, 1, 1)
        sy == SumCoord(pts, 2, 1)
        d2 == {(n * pts[i][1] - sx) * (n * pts[i][1] - sx)
                 + (n * pts[i][2] - sy) * (n * pts[i][2] - sy) : i \in 1 .. n}
    IN [n |-> n, sx |-> sx, sy |-> sy, m2 |-> IF n = 0 THEN 0 ELSE SetMax(d2)]

\* round(b / sqrt(m2)) for b >= 0, m2 > 0, half to even: the first t with
\* b / sqrt(m2) <= t + 1/2, compared on squares
RECURSIVE RoundSqrtUp(_, _, _)
RoundSqrtUp(b, m2, t) ==
    IF 4 * b * b < (2 * t + 1) * (2 * t + 1) * m2 THEN t
    ELSE IF 4 * b * b = (2 * t + 1) * (2 * t + 1) * m2 THEN (IF t % 2 = 0 THEN t ELSE t + 1)
    ELSE RoundSqrtUp(b, m2, t + 1)

RoundSqrt(b, m2) == IF b >= 0 THEN RoundSqrtUp(b, m2, 0) ELSE -RoundSqrtUp(-b, m2, 0)

\* _qf((c - centre) / scale, grid) where v = n * (c - centre) in tenths and
\* g = 1 / grid: scale is max_r, or 1.0 when max_r <= 0 ("if max_r <= 0.0:
\* max_r = 1.0")
qfNorm(v, info, g) ==
    IF info.m2 = 0 THEN RoundDiv(v * g, info.n * 10)
    ELSE RoundSqrt(v * g, info.m2)

\* lexicographic order of two integer tuples of one length
TupLess(a, b) ==
    \E i \in 1 .. Len(a) : a[i] < b[i] /\ \A j \in 1 .. (i - 1) : a[j] = b[j]

\* the list sorted by key (stable)
SortByKey(s, keys) ==
    [k \in 1 .. Len(s) |->
        s[CHOOSE i \in 1 .. Len(s) :
            Cardinality({j \in 1 .. Len(s) :
                TupLess(keys[j], keys[i]) \/ (keys[j] = keys[i] /\ j < i)}) = k - 1]]

\* a list of tuples sorted by the tuples themselves
SortTuples(s) == SortByKey(s, s)

\* a list of integers sorted
SortInts(s) == SortByKey(s, [i \in 1 .. Len(s) |-> <<s[i]>>])

\* _quantize_points: quantise, then out.sort()
quantize_points(pts, info, g) ==
    SortTuples([i \in 1 .. Len(pts) |->
                  <<qfNorm(info.n * pts[i][1] - info.sx, info, g),
                    qfNorm(info.n * pts[i][2] - info.sy, info, g)>>])

\* "if last is None or p != last: q_pts_unique.append(p)"
Dedup(s) == SelectSeq([i \in 1 .. Len(s) |-> [p |-> s[i], keep |-> (i = 1 \/ s[i] # s[i - 1])]],
                      LAMBDA x : x.keep)

q_pts_unique(pts, info, g) ==
    LET d == Dedup(quantize_points(pts, info, g))
    IN [i \in 1 .. Len(d) |-> d[i].p]

\* _normalize_and_quantize_primitives, one primitive
QuantPrim(p, info, g) ==
    CASE p.type = "LINE" ->
            [type |-> "LINE", cx |-> 0, cy |-> 0, r |-> 0,
             p0x |-> qfNorm(info.n * p.p0x - info.sx, info, g),
             p0y |-> qfNorm(info.n * p.p0y - info.sy, info, g),
             p1x |-> qfNorm(info.n * p.p1x - info.sx, info, g),
             p1y |-> qfNorm(info.n * p.p1y - info.sy, info, g)]
      [] p.type = "CIRCLE" ->
            [type |-> "CIRCLE",
             cx |-> qfNorm(info.n * p.cx - info.sx, info, g),
             cy |-> qfNorm(info.n * p.cy - info.sy, info, g),
             r |-> qfNorm(info.n * p.r, info, g),
             p0x |-> 0, p0y |-> 0, p1x |-> 0, p1y |-> 0]
      [] p.type = "ARC" ->
            [type |-> "ARC",
             cx |-> qfNorm(info.n * p.cx - info.sx, info, g),
             cy |-> qfNorm(info.n * p.cy - info.sy, info, g),
             r |-> qfNorm(info.n * p.r, info, g),
             p0x |-> qfNorm(info.n * p.p0x - info.sx, info, g),
             p0y |-> qfNorm(info.n * p.p0y - info.sy, info, g),
             p1x |-> qfNorm(info.n * p.p1x - info.sx, info, g),
             p1y |-> qfNorm(info.n * p.p1y - info.sy, info, g)]

\* the sort key of a quantised primitive. The code sorts on the JSON text of
\* the primitive; any total order on the content yields the same list
\* equalities.
PrimKey(p) ==
    <<CASE p.type = "ARC" -> 1 [] p.type = "CIRCLE" -> 2 [] p.type = "LINE" -> 3,
      p.cx, p.cy, p.r, p.p0x, p.p0y, p.p1x, p.p1y>>

SortPrims(qs) == SortByKey(qs, [i \in 1 .. Len(qs) |-> PrimKey(qs[i])])

q_prims_sorted(prims, info, g) ==
    SortPrims([i \in 1 .. Len(prims) |-> QuantPrim(prims[i], info, g)])

CountType(prims, t) == Cardinality({i \in 1 .. Len(prims) : prims[i].type = t})

\* _compute_geom_from_bbox for a non-empty entity list. geom_id is the SHA-1
\* of the canonical JSON of points and prims; it is modelled by that content
\* itself.
compute_geom(sym, g) ==
    LET all_pts == AllPts(sym, 1)
        all_prims == AllPrims(sym)
        info == NormInfo(all_pts)
    IN [geom_id |-> [points |-> q_pts_unique(all_pts, info, g),
                     prims |-> q_prims_sorted(all_prims, info, g)],
        stats |-> [n_points |-> Len(all_pts),
                   n_primitives |-> Len(all_prims),
                   n_line |-> CountType(all_prims, "LINE"),
                   n_arc |-> CountType(all_prims, "ARC"),
                   n_circle |-> CountType(all_prims, "CIRCLE")]]
\* the reciprocals of quant_grid, the shifts and the scale factors tried
Grids == {2, 4}

Shifts == { <<3, 0>>, <<-1, 2>> }

Scales == {2, 3}

\* the entities symbols are drawn from; two of the arcs have equal start and
\* end angle, so that all their sample points coincide
GPool ==
    { GLine(0, 0, 4, 0), GLine(0, 0, 0, 3), GLine(4, 0, 0, 3), GLine(1, 1, 3, 2),
      GLine(1, 1, 1, 1),
      GCircle(2, 2, 2), GCircle(0, 0, 1),
      GArc(0, 0, 1, 0, 0), GArc(2, 1, 2, 0, 180), GArc(1, 1, 1, 90, 90) }

\* every coordinate moved by (dx, dy)
TranslateE(e, d) ==
    IF e.type = "LINE"
    THEN [e EXCEPT !.x0 = @ + d[1], !.y0 = @ + d[2], !.x1 = @ + d[1], !.y1 = @ + d[2]]
    ELSE [e EXCEPT !.x0 = @ + d[1], !.y0 = @ + d[2]]

\* every coordinate and radius multiplied by k
ScaleE(e, k) ==
    [e EXCEPT !.x0 = @ * k, !.y0 = @ * k, !.x1 = @ * k, !.y1 = @ * k, !.r = @ * k]

GInit ==
    /\ \E n \in 1 .. MaxSym : gsym0 \in [1 .. n -> GPool]
    /\ gsym = gsym0
    /\ ggrid \in Grids
    /\ ggeom0 = compute_geom(gsym0, ggrid)
    /\ ggeom = ggeom0
    /\ gops = {}
    /\ UFIdle /\ ClIdle /\ MIdle /\ RIdle /\ LIdle /\ XIdle /\ AuxIdle

\* the symbol translated, and its geometry computed again
GTranslate ==
    /\ gsym # <<>>
    /\ "translate" \notin gops
    /\ \E d \in Shifts : gsym' = [i \in 1 .. Len(gsym) |-> TranslateE(gsym[i], d)]
    /\ ggeom' = compute_geom(gsym', ggrid)
    /\ gops' = gops \cup {"translate"}
    /\ UNCHANGED <<gsym0, ggrid, ggeom0, ufVars, clVars, mVars, rVars, lVars, xVars, auxVars>>

\* the symbol scaled, and its geometry computed again
GScale ==
    /\ gsym # <<>>
    /\ "scale" \notin gops
    /\ \E k \in Scales : gsym' = [i \in 1 .. Len(gsym) |-> ScaleE(gsym[i], k)]
    /\ ggeom' = compute_geom(gsym', ggrid)
    /\ gops' = gops \cup {"scale"}
    /\ UNCHANGED <<gsym0, ggrid, ggeom0, ufVars, clVars, mVars, rVars, lVars, xVars, auxVars>>

\* two entities of the symbol exchanged, and its geometry computed again
GPermute ==
    /\ Len(gsym) >= 2
    /\ "permute" \notin gops
    /\ \E i \in 1 .. Len(gsym), j \in 1 .. Len(gsym) :
          /\ i < j
          /\ gsym' = [gsym EXCEPT ![i] = gsym[j], ![j] = gsym[i]]
    /\ ggeom' = compute_geom(gsym', ggrid)
    /\ gops' = gops \cup {"permute"}
    /\ UNCHANGED <<gsym0, ggrid, ggeom0, ufVars, clVars, mVars, rVars, lVars, xVars, auxVars>>

GNext == GTranslate \/ GScale \/ GPermute

CanonSpec == GInit /\ [][GNext]_vars

\* all sample points of the symbol coincide: _normalize_points finds
\* max_r = 0 and returns the scale 1.0
AllPointsCoincide(sym) == NormInfo(AllPts(sym, 1)).m2 = 0

\* C3: the geometry id of a symbol is the same after translating every
\* coordinate, after scaling every coordinate and radius by k > 0 and after
\* reordering the entities. Violated by the code: see C3_ScaleChangesId.
C3_SameGeometryId == ggeom.geom_id = ggeom0.geom_id

\* the part of C3 that the code keeps: the id is the same for every symbol
\* whose sample points do not all coincide, and under translation and
\* reordering for every symbol
C3_SameIdOffDegenerate ==
    (~AllPointsCoincide(gsym0) \/ "scale" \notin gops) => ggeom.geom_id = ggeom0.geom_id

\* a symbol whose points all coincide has been scaled and its id has changed
C3_ScaleChangesId ==
    /\ gsym0 # <<>>
    /\ AllPointsCoincide(gsym0)
    /\ "scale" \in gops
    /\ ggeom.geom_id # ggeom0.geom_id
(***************************************************************************)
(* export_legend_geometry_library: the legend geometry library             *)
(* A geometry id is a positive integer; 0 stands for an item without a     *)
(* usable geom_id and for a bbox whose geometry is None. An indexing run   *)
(* reads the index file, applies its legend results in memory and writes   *)
(* the file; two runs may work on one file.                                *)
(***************************************************************************)
MaxResults == 2

\* "if len(examples) > 20: item["examples"] = examples[-20:]"
ExamplesCap == 20

Runs == {1, 2}

GeomIds == {1, 2}

LastN(s, n) == IF Len(s) <= n THEN s ELSE SubSeq(s, Len(s) - n + 1, Len(s))

\* a load that never finds a stored index
LoadIndexNone(file) == <<>>

\* index_data["items"] after the load: the items of a readable file that is
\* a dict with an items list, no items otherwise
LoadIndex(file) == IF file.ok THEN file.items ELSE <<>>

\* items_by_id: "if gid: items_by_id[gid] = it", a later item replacing an
\* earlier one with the same id
ItemsById(items) ==
    [g \in {items[i].geom_id : i \in 1 .. Len(items)} \ {0} |->
        items[SetMax({i \in 1 .. Len(items) : items[i].geom_id = g})]]

\* a loop body that always starts from a fresh item
IndexOneFresh(ibi, res, gid, src) ==
    IF res.desc = "" \/ res.geom = 0 THEN ibi
    ELSE [g \in DOMAIN ibi \cup {res.geom} |->
            IF g = res.geom
            THEN [geom_id |-> g, descs |-> <<res.desc>>,
                  examples |-> <<[input |-> src, gid |-> gid]>>]
            ELSE ibi[g]]

\* a loop body that cuts the examples to the oldest ones
IndexOneKeepOldest(ibi, res, gid, src) ==
    IF res.desc = "" \/ res.geom = 0 THEN ibi
    ELSE LET item == IF res.geom \in DOMAIN ibi
                     THEN ibi[res.geom]
                     ELSE [geom_id |-> res.geom, descs |-> <<>>, examples |-> <<>>]
             descs == IF \E k \in 1 .. Len(item.descs) : item.descs[k] = res.desc
                      THEN item.descs
                      ELSE Append(item.descs, res.desc)
             examples == Append(item.examples, [input |-> src, gid |-> gid])
         IN [g \in DOMAIN ibi \cup {res.geom} |->
                IF g = res.geom
                THEN [geom_id |-> item.geom_id, descs |-> descs,
                      examples |-> SubSeq(examples, 1, Min2(Len(examples), ExamplesCap))]
                ELSE ibi[g]]

\* the body of "for gid, bb, desc in legend_results" for one result
IndexOne(ibi, res, gid, src) ==
    IF res.desc = "" \/ res.geom = 0 THEN ibi
    ELSE LET item == IF res.geom \in DOMAIN ibi
                     THEN ibi[res.geom]
                     ELSE [geom_id |-> res.geom, descs |-> <<>>, examples |-> <<>>]
             descs == IF \E k \in 1 .. Len(item.descs) : item.descs[k] = res.desc
                      THEN item.descs
                      ELSE Append(item.descs, res.desc)
             examples == Append(item.examples, [input |-> src, gid |-> gid])
         IN [g \in DOMAIN ibi \cup {res.geom} |->
                IF g = res.geom
                THEN [geom_id |-> item.geom_id, descs |-> descs,
                      examples |-> LastN(examples, ExamplesCap)]
                ELSE ibi[g]]

\* the loop over legend_results; gid is the position of the result
RECURSIVE IndexAll(_, _, _, _)
IndexAll(ibi, results, i, src) ==
    IF i > Len(results) THEN ibi
    ELSE IndexAll(IndexOne(ibi, results[i], i, src), results, i + 1, src)

\* index_out: the items in the order of sorted(items_by_id.keys())
StoreIndex(ibi) ==
    [ok |-> TRUE, items |-> [k \in 1 .. Cardinality(DOMAIN ibi) |-> ibi[SortedSeq(DOMAIN ibi)[k]]]]

\* the results a run may carry: a geometry with a label, with another label,
\* another geometry, a result without a label, a bbox without geometry
ResultPool ==
    { [geom |-> 1, desc |-> "A"], [geom |-> 1, desc |-> "B"], [geom |-> 2, desc |-> "A"],
      [geom |-> 1, desc |-> ""], [geom |-> 0, desc |-> "A"] }

\* the index files a first run may find: none yet, an unreadable one, one
\* that stores an item but not as a dict with an items list, one whose item 1
\* already holds 19 examples, one with an item without geom_id
FilePool ==
    { [ok |-> TRUE, items |-> <<>>],
      [ok |-> FALSE, items |-> <<>>],
      [ok |-> FALSE,
       items |-> <<[geom_id |-> 1, descs |-> <<"B">>, examples |-> <<[input |-> 0, gid |-> 1]>>]>>],
      [ok |-> TRUE,
       items |-> <<[geom_id |-> 1, descs |-> <<"A">>,
                    examples |-> [i \in 1 .. (ExamplesCap - 1) |-> [input |-> 0, gid |-> i]]]>>],
      [ok |-> TRUE,
       items |-> <<[geom_id |-> 0, descs |-> <<"B">>, examples |-> <<[input |-> 0, gid |-> 1]>>],
                   [geom_id |-> 2, descs |-> <<"B">>, examples |-> <<[input |-> 0, gid |-> 1]>>]>>] }

\* the legend results of one run: up to MaxResults results, or one drawing
\* whose legend shows the same symbol as many times as an item keeps examples
ResultLists ==
    UNION {[1 .. n -> ResultPool] : n \in 1 .. MaxResults}
        \cup {[i \in 1 .. ExamplesCap |-> [geom |-> 1, desc |-> "A"]]}

\* history: the examples appended for geometry g by the results from i on
RECURSIVE Arrivals(_, _, _, _)
Arrivals(results, i, g, src) ==
    IF i > Len(results) THEN <<>>
    ELSE (IF results[i].desc # "" /\ results[i].geom = g
          THEN <<[input |-> src, gid |-> i]>> ELSE <<>>) \o Arrivals(results, i + 1, g, src)

\* history: the labels geometry g is indexed with by the results
LabelsOf(results, g) ==
    {results[i].desc : i \in {j \in 1 .. Len(results) : results[j].desc # "" /\ results[j].geom = g}}

LInit ==
    /\ libfile \in FilePool
    /\ lpc = [r \in Runs |-> "idle"]
    /\ lmem = [r \in Runs |-> <<>>]
    /\ lhist = [g \in GeomIds |->
                   IF g \in DOMAIN ItemsById(LoadIndex(libfile))
                   THEN ItemsById(LoadIndex(libfile))[g].examples ELSE <<>>]
    /\ llabels = [g \in GeomIds |->
                   IF g \in DOMAIN ItemsById(LoadIndex(libfile))
                   THEN {"A", "B"} \cap {ItemsById(LoadIndex(libfile))[g].descs[k] :
                                            k \in 1 .. Len(ItemsById(LoadIndex(libfile))[g].descs)}
                   ELSE {}]
    /\ loverlap = FALSE
    /\ UFIdle /\ ClIdle /\ MIdle /\ RIdle /\ GIdle /\ XIdle /\ AuxIdle

\* run r reads the index and applies its legend results in memory
LibLoad(r) ==
    /\ lpc # <<>>
    /\ lpc[r] = "idle"
    /\ \E results \in ResultLists :
          /\ lmem' = [lmem EXCEPT ![r] = IndexAll(ItemsById(LoadIndex(libfile)), results, 1, r)]
          /\ lhist' = [g \in GeomIds |-> lhist[g] \o Arrivals(results, 1, g, r)]
          /\ llabels' = [g \in GeomIds |-> llabels[g] \cup LabelsOf(results, g)]
    /\ lpc' = [lpc EXCEPT ![r] = "loaded"]
    /\ loverlap' = (loverlap \/ \E q \in Runs : lpc[q] = "loaded")
    /\ UNCHANGED <<libfile, ufVars, clVars, mVars, rVars, gVars, xVars, auxVars>>

\* run r writes the whole index
LibStore(r) ==
    /\ lpc # <<>>
    /\ lpc[r] = "loaded"
    /\ libfile' = StoreIndex(lmem[r])
    /\ lpc' = [lpc EXCEPT ![r] = "stored"]
    /\ UNCHANGED <<lmem, lhist, llabels, loverlap, ufVars, clVars, mVars, rVars, gVars, xVars, auxVars>>

LNext == \E r \in Runs : LibLoad(r) \/ LibStore(r)

LibrarySpec == LInit /\ [][LNext]_vars

\* the items of the index file that carry geometry id g
ItemsOf(g) == {i \in 1 .. Len(LoadIndex(libfile)) : LoadIndex(libfile)[i].geom_id = g}

\* the runs so far came one after the other, and none is between its read
\* and its write
Successive == lpc # <<>> /\ ~loverlap /\ \A r \in Runs : lpc[r] # "loaded"

NoRepeat(s) == \A i \in 1 .. Len(s), j \in 1 .. Len(s) : s[i] = s[j] => i = j

\* C7: after any number of indexings of one geometry, within a run or across
\* successive runs on one index file, the file holds exactly one item with
\* that geom_id; the item's examples are the appended occurrences, one per
\* indexing (the most recent 20 of them), so two after two indexings; its
\* label list holds each label it was indexed with exactly once.
C7_OneItemPerGeometry ==
    Successive =>
        \A g \in GeomIds :
            lhist[g] # <<>> =>
                /\ Cardinality(ItemsOf(g)) = 1
                /\ \A i \in ItemsOf(g) :
                      /\ libfile.items[i].examples = LastN(lhist[g], ExamplesCap)
                      /\ (Len(lhist[g]) = 2 => Len(libfile.items[i].examples) = 2)
                      /\ NoRepeat(libfile.items[i].descs)
                      /\ {libfile.items[i].descs[k] : k \in 1 .. Len(libfile.items[i].descs)}
                            = llabels[g]

\* one geometry indexed once by each of two successive runs, with the same
\* label: one item, two examples, one label
C7_Witness ==
    /\ Successive
    /\ \A r \in Runs : lpc[r] = "stored"
    /\ \E i \in 1 .. Len(libfile.items) :
          /\ libfile.items[i].geom_id = 1
          /\ Len(lhist[1]) = 2
          /\ Len(libfile.items[i].examples) = 2
          /\ libfile.items[i].examples[1].input # libfile.items[i].examples[2].input
          /\ Len(libfile.items[i].descs) = 1
\* every item stored in the file old is stored in the file new, under the
\* same geometry id and with at least the labels it had
ItemsKept(old, new, which) ==
    \A i \in which :
        \E j \in 1 .. Len(new.items) :
            /\ new.items[j].geom_id = old.items[i].geom_id
            /\ \A k \in 1 .. Len(old.items[i].descs) :
                  \E m \in 1 .. Len(new.items[j].descs) :
                      new.items[j].descs[m] = old.items[i].descs[k]

\* across successive runs the items of a well-formed index that carry a
\* geometry id are kept, with their labels
C13_UsableItemsKept ==
    [][~loverlap' /\ libfile.ok =>
          ItemsKept(libfile, libfile',
                    {i \in 1 .. Len(libfile.items) : libfile.items[i].geom_id # 0})]_libfile

\* C13: across any sequence of indexing runs on one index file, an item
\* present in the index before a run is still present after it, with its
\* labels, also when the stored file is unreadable or malformed or holds an
\* item without a usable geom_id
C13_ItemsNeverLost ==
    [][~loverlap' => ItemsKept(libfile, libfile', 1 .. Len(libfile.items))]_libfile

AllStored == lpc # <<>> /\ \A r \in Runs : lpc[r] = "stored"

\* the positions of the items of geometry g in the stored file
StoredItems(g) == {i \in 1 .. Len(libfile.items) : libfile.items[i].geom_id = g}

\* the examples the file holds for geometry g
FileExamples(g) ==
    UNION {{libfile.items[i].examples[k] : k \in 1 .. Len(libfile.items[i].examples)} :
              i \in StoredItems(g)}

FileLabels(g) ==
    UNION {{libfile.items[i].descs[k] : k \in 1 .. Len(libfile.items[i].descs)} :
              i \in StoredItems(g)}

\* the examples run r wrote for geometry g
WrittenBy(r, g) == {lhist[g][k] : k \in {j \in 1 .. Len(lhist[g]) : lhist[g][j].input = r}}

\* the runs interleaved, and what the run that stored first wrote is gone:
\* the file is the memory of the other run
FirstStoreLost ==
    \A q \in Runs :
        libfile # StoreIndex(lmem[q]) => \A g \in GeomIds : FileExamples(g) \cap WrittenBy(q, g) = {}

\* the statement with "every example": after two successive runs the file
\* holds every label and every example written by both
C16_SerialKeepsEveryExample ==
    AllStored =>
        /\ ~loverlap =>
              \A g \in GeomIds : \A r \in Runs :
                  /\ WrittenBy(r, g) \subseteq FileExamples(g)
                  /\ llabels[g] \subseteq FileLabels(g)
        /\ loverlap => FirstStoreLost

\* C16: a run reads the index once and writes the whole index once; after two
\* successive runs the file holds every item and label written by both and,
\* of each item, the most recent 20 examples; after two interleaved runs
\* (both load before either stores) the examples written by the run that
\* stored first are lost
C16_SerialKeepsInterleavedLoses ==
    AllStored =>
        /\ ~loverlap =>
              \A g \in GeomIds :
                  lhist[g] # <<>> =>
                      /\ StoredItems(g) # {}
                      /\ \A i \in StoredItems(g) :
                            libfile.items[i].examples = LastN(lhist[g], ExamplesCap)
                      /\ llabels[g] \subseteq FileLabels(g)
        /\ loverlap => FirstStoreLost

\* two interleaved runs that both indexed geometry 1: the file holds the
\* examples of one of them only
C16_Witness ==
    /\ AllStored /\ loverlap
    /\ \A r \in Runs : WrittenBy(r, 1) # {}
    /\ \E q \in Runs : FileExamples(1) \cap WrittenBy(q, 1) = {}
    /\ \E q \in Runs : WrittenBy(q, 1) \subseteq FileExamples(1)

\* the index file has been written by a run
Written == lpc # <<>> /\ \E r \in Runs : lpc[r] = "stored"

\* C29: after any sequence of indexings every item of the written index holds
\* at most 20 examples, and when more than 20 were appended the ones kept are
\* the 20 most recent, in their order of arrival
C29_ExamplesBounded ==
    Written =>
        \A i \in 1 .. Len(libfile.items) :
            /\ Len(libfile.items[i].examples) <= ExamplesCap
            /\ Successive =>
                  libfile.items[i].examples
                      = LastN(lhist[libfile.items[i].geom_id], ExamplesCap)

\* more than 20 examples were appended to an item over successive runs, and
\* the written item holds 20 of them, the first arrival gone
C29_Witness ==
    /\ Written /\ Successive
    /\ \E i \in 1 .. Len(libfile.items) :
        /\ Len(lhist[libfile.items[i].geom_id]) > ExamplesCap
        /\ Len(libfile.items[i].examples) = ExamplesCap
        /\ libfile.items[i].examples[1] # lhist[libfile.items[i].geom_id][1]

(***************************************************************************)
(* Matching, fingerprint path: main of group_green_entities_bbox.py         *)
(* A fingerprint (the 64-bit phash) is the set of its bit positions that   *)
(* are 1.                                                                  *)
(***************************************************************************)
MaxRefs == 2

MaxCands == 2

\* _phash_hamming of two well-formed fingerprints: bit_count of ia ^ ib
phash_hamming(a, b) == Cardinality((a \ b) \cup (b \ a))

\* _stats_similarity_score
stats_similarity_score(ref_stats, cand_stats) ==
    Abs(cand_stats.n_primitives - ref_stats.n_primitives)
        + Abs(cand_stats.n_line - ref_stats.n_line)
        + Abs(cand_stats.n_arc - ref_stats.n_arc)
        + Abs(cand_stats.n_circle - ref_stats.n_circle)

Stats(np, nl, na, nc) == [n_primitives |-> np, n_line |-> nl, n_arc |-> na, n_circle |-> nc]

\* the two "continue" of the loop over the references: the text tag test
\* "if rsig and cand_sig != rsig" and the count test "ratio < 0.5 or
\* ratio > 2.0" with ratio = cn / rn, applied when rn > 0 and cn > 0
RefRejected(cand, ref) ==
    \/ ref.sig # "" /\ cand.sig # ref.sig
    \/ /\ ref.stats.n_primitives > 0
       /\ cand.stats.n_primitives > 0
       /\ \/ 2 * cand.stats.n_primitives < ref.stats.n_primitives
          \/ cand.stats.n_primitives > 2 * ref.stats.n_primitives

\* key = (int(d), int(sscore))
MatchKey(cand, ref) ==
    <<phash_hamming(cand.phash, ref.phash), stats_similarity_score(ref.stats, cand.stats)>>

\* the references the loop does not skip
Kept(cand, refs) == {i \in 1 .. Len(refs) : ~RefRejected(cand, refs[i])}

\* best: the first kept reference whose key is the smallest ("key < best_key")
BestRef(cand, refs) ==
    CHOOSE i \in Kept(cand, refs) :
        \A j \in Kept(cand, refs) :
            /\ ~TupLess(MatchKey(cand, refs[j]), MatchKey(cand, refs[i]))
            /\ (MatchKey(cand, refs[j]) = MatchKey(cand, refs[i]) => i <= j)

\* candidates: one entry per candidate that kept a reference, in scan order
Candidates(cands, refs) ==
    LET all == [c \in 1 .. Len(cands) |->
                   IF Kept(cands[c], refs) = {}
                   THEN [cand |-> c, dist |-> 0, stats_score |-> 0, ref_idx |-> 0]
                   ELSE [cand |-> c,
                         dist |-> MatchKey(cands[c], refs[BestRef(cands[c], refs)])[1],
                         stats_score |-> MatchKey(cands[c], refs[BestRef(cands[c], refs)])[2],
                         ref_idx |-> BestRef(cands[c], refs)]]
    IN SelectSeq(all, LAMBDA r : r.ref_idx # 0)

SortKey(r) == <<r.dist, r.stats_score>>

\* the matches without the threshold test
MatchesUnfiltered(cands, refs, max_d, top_k) ==
    LET found == Candidates(cands, refs)
    IN SortByKey(found, [i \in 1 .. Len(found) |-> SortKey(found[i])])

\* candidates_sorted, then matches: those within max_d, or the first top_k
\* when there is none and top_k > 0
Matches(cands, refs, max_d, top_k) ==
    LET found == Candidates(cands, refs)
        candidates_sorted == SortByKey(found, [i \in 1 .. Len(found) |-> SortKey(found[i])])
        within == SelectSeq(candidates_sorted, LAMBDA r : r.dist <= max_d)
    IN IF within = <<>> /\ top_k > 0
       THEN SubSeq(candidates_sorted, 1, Min2(top_k, Len(candidates_sorted)))
       ELSE within

\* references and candidates whose fingerprints lie 0, 1, 12 and 13 bits
\* apart, with primitive counts in the ratios 1/3, 1/2, 1, 2, 3 and 6
RefPool ==
    { [phash |-> {}, stats |-> Stats(1, 1, 0, 0), sig |-> ""],
      [phash |-> {}, stats |-> Stats(2, 1, 1, 0), sig |-> ""],
      [phash |-> {0}, stats |-> Stats(1, 1, 0, 0), sig |-> "A"],
      [phash |-> 0 .. 12, stats |-> Stats(3, 3, 0, 0), sig |-> ""],
      [phash |-> {}, stats |-> Stats(0, 0, 0, 0), sig |-> "B"] }

CandPool ==
    { [phash |-> {}, stats |-> Stats(3, 3, 0, 0), sig |-> ""],
      [phash |-> {}, stats |-> Stats(1, 1, 0, 0), sig |-> ""],
      [phash |-> {0}, stats |-> Stats(2, 1, 1, 0), sig |-> "A"],
      [phash |-> 0 .. 11, stats |-> Stats(6, 6, 0, 0), sig |-> ""],
      [phash |-> {}, stats |-> Stats(6, 6, 0, 0), sig |-> "B"] }

\* --match-phash-max-dist (default 12) and --match-top-k (default 0)
MaxDists == {12}

TopKs == {0, 1}

HIdle ==
    /\ hlib = <<>>
    /\ hcand = <<>>
    /\ hscores = <<>>
    /\ hthr = 0
    /\ htopk = 0
    /\ hcthr = 0
    /\ hmatch = <<>>

FInit ==
    /\ xpc = "fp"
    /\ \E n \in 1 .. MaxRefs : frefs \in [1 .. n -> RefPool]
    /\ \E n \in 1 .. MaxCands : fcands \in [1 .. n -> CandPool]
    /\ fmaxd \in MaxDists
    /\ ftopk \in TopKs
    /\ fmatches = <<>>
    /\ HIdle
    /\ UFIdle /\ ClIdle /\ MIdle /\ RIdle /\ GIdle /\ LIdle /\ AuxIdle

\* the scan of the candidate INSERTs and the selection of the matches
FpMatch ==
    /\ xpc = "fp"
    /\ fmatches' = Matches(fcands, frefs, fmaxd, ftopk)
    /\ xpc' = "fpdone"
    /\ UNCHANGED <<frefs, fcands, fmaxd, ftopk, hlib, hcand, hscores, hthr, htopk, hcthr, hmatch,
                   ufVars, clVars, mVars, rVars, gVars, lVars, auxVars>>

\* the fingerprint path alone
FpSpec == FInit /\ [][FpMatch]_vars

(***************************************************************************)
(* Matching, descriptor + Chamfer path: recognize_replace_symbols.py main, *)
(* compute_descriptor and descriptor_distance of symbol_lib.py             *)
(* Entities have integer coordinates and axis-parallel segments. Scores    *)
(* are doubled (descriptor_distance weighs the angles by 0.5); Chamfer     *)
(* scores are in hundredths.                                               *)
(***************************************************************************)
DLine(x0, y0, x1, y1) ==
    [type |-> "LINE", pts |-> << <<x0, y0>>, <<x1, y1>> >>, closed |-> FALSE, r |-> 0]

DCircle(cx, cy, r) == [type |-> "CIRCLE", pts |-> << <<cx, cy>> >>, closed |-> FALSE, r |-> r]

DPoly(pts, closed) == [type |-> "LWPOLYLINE", pts |-> pts, closed |-> closed, r |-> 0]

DPoint(x, y) == [type |-> "POINT", pts |-> << <<x, y>> >>, closed |-> FALSE, r |-> 0]

\* bbox2d: the extent of the points, widened by the radius of a circle
bbox2d(e) ==
    <<SetMin({e.pts[i][1] : i \in 1 .. Len(e.pts)}) - e.r,
      SetMin({e.pts[i][2] : i \in 1 .. Len(e.pts)}) - e.r,
      SetMax({e.pts[i][1] : i \in 1 .. Len(e.pts)}) + e.r,
      SetMax({e.pts[i][2] : i \in 1 .. Len(e.pts)}) + e.r>>

\* bbox_of_entities: merge_bbox of the bbox2d of the entities
bbox_of_entities(ents) == UnionOfSet({bbox2d(ents[i]) : i \in 1 .. Len(ents)})

\* the segments compute_descriptor measures in one entity: the LINE itself,
\* "zip(seq, seq[1:])" with seq = pts + [pts[0]] for a closed polyline; a
\* segment is its length and its direction class (0 along x, 1 along y), and
\* segments of length 0 are skipped
EntitySegs(e) ==
    IF e.type \notin {"LINE", "LWPOLYLINE"} THEN <<>>
    ELSE LET seq == IF e.closed THEN Append(e.pts, e.pts[1]) ELSE e.pts
             all == [i \in 1 .. (Len(seq) - 1) |->
                        [len |-> Abs(seq[i + 1][1] - seq[i][1]) + Abs(seq[i + 1][2] - seq[i][2]),
                         axis |-> IF seq[i + 1][2] = seq[i][2] THEN 0 ELSE 1]]
         IN SelectSeq(all, LAMBDA g : g.len > 0)

RECURSIVE AllSegs(_, _)
AllSegs(ents, i) == IF i > Len(ents) THEN <<>> ELSE EntitySegs(ents[i]) \o AllSegs(ents, i + 1)

DescTypes == {"LINE", "CIRCLE", "ARC", "LWPOLYLINE", "POLYLINE", "INSERT"}

\* the descriptor of compute_descriptor from the bounding box bb and the
\* measured segments segs, with the default steps: lengths and radii in
\* hundredths of norm, angles in steps of 5 degrees relative to the direction
\* of the first longest segment (0 or 18 for axis-parallel segments)
DescriptorOf(ents, bb, segs) ==
    LET width == bb[3] - bb[1]
        height == bb[4] - bb[2]
        norm == IF Max2(width, height) <= 0 THEN 1 ELSE Max2(width, height)
        longest == CHOOSE i \in 1 .. Len(segs) :
                       /\ \A j \in 1 .. Len(segs) : segs[j].len <= segs[i].len
                       /\ \A j \in 1 .. (i - 1) : segs[j].len < segs[i].len
        circles == SelectSeq(ents, LAMBDA e : e.type = "CIRCLE" /\ e.r > 0)
    IN [counts |-> [t \in DescTypes |-> Cardinality({i \in 1 .. Len(ents) : ents[i].type = t})],
        lengths_q |-> SortInts([i \in 1 .. Len(segs) |-> RoundDiv(100 * segs[i].len, norm)]),
        angles_q |-> SortInts([i \in 1 .. Len(segs) |->
                                   IF segs[i].axis = segs[longest].axis THEN 0 ELSE 18]),
        radii_q |-> SortInts([i \in 1 .. Len(circles) |-> RoundDiv(100 * circles[i].r, norm)]),
        size_q |-> <<RoundDiv(100 * width, norm), RoundDiv(100 * height, norm)>>]

compute_descriptor(ents) ==
    CHOOSE d \in {DescriptorOf(ents, bb, segs) :
                    bb \in {bbox_of_entities(ents)}, segs \in {AllSegs(ents, 1)}} : TRUE

RECURSIVE SumAbsDiff(_, _, _)
SumAbsDiff(x, y, i) ==
    IF i > Len(x) \/ i > Len(y) THEN 0 ELSE Abs(x[i] - y[i]) + SumAbsDiff(x, y, i + 1)

\* list_dist of descriptor_distance, doubled: w2 = 2 * w
list_dist2(x, y, w2) ==
    IF x = <<>> /\ y = <<>> THEN 0
    ELSE IF x = <<>> \/ y = <<>> THEN w2 * 200 + Abs(Len(x) - Len(y)) * w2 * 10
    ELSE (SumAbsDiff(x, y, 1) + Abs(Len(x) - Len(y)) * 20) * w2

RECURSIVE SumOver(_, _, _)
SumOver(S, a, b) ==
    IF S = {} THEN 0
    ELSE Abs(a[CHOOSE t \in S : TRUE] - b[CHOOSE t \in S : TRUE]) * 100
            + SumOver(S \ {CHOOSE t \in S : TRUE}, a, b)

\* descriptor_distance, doubled: 50 per unit of count difference, the three
\* list distances with weights 1, 2 and 0.5, and 5 per unit of size difference
descriptor_distance2(a, b) ==
    SumOver(DescTypes, a.counts, b.counts)
        + list_dist2(a.lengths_q, b.lengths_q, 2)
        + list_dist2(a.radii_q, b.radii_q, 4)
        + list_dist2(a.angles_q, b.angles_q, 1)
        + (Abs(a.size_q[1] - b.size_q[1]) + Abs(a.size_q[2] - b.size_q[2])) * 10
\* what sample_points_from_entities draws of an entity list: the segments
\* (endpoints in lexicographic order) and the circles; a POINT that lies on a
\* drawn segment moves the Chamfer score by less than half a hundredth
DrawnSeg(p, q) ==
    IF TupLess(q, p) THEN [kind |-> "seg", a |-> q, b |-> p, r |-> 0]
    ELSE [kind |-> "seg", a |-> p, b |-> q, r |-> 0]

OnSeg(p, g) ==
    /\ g.kind = "seg"
    /\ g.a[1] <= p[1] /\ p[1] <= g.b[1]
    /\ Min2(g.a[2], g.b[2]) <= p[2] /\ p[2] <= Max2(g.a[2], g.b[2])
    /\ (g.a[1] = g.b[1] \/ g.a[2] = g.b[2])

DrawnLines(ents) ==
    UNION {LET e == ents[i]
               seq == IF e.closed THEN Append(e.pts, e.pts[1]) ELSE e.pts
           IN IF e.type \in {"LINE", "LWPOLYLINE"}
              THEN {DrawnSeg(seq[k], seq[k + 1]) : k \in 1 .. (Len(seq) - 1)}
              ELSE IF e.type = "CIRCLE" /\ e.r > 0
              THEN {[kind |-> "circle", a |-> e.pts[1], b |-> e.pts[1], r |-> e.r]}
              ELSE {} : i \in 1 .. Len(ents)}

Drawn(ents) ==
    DrawnLines(ents) \cup
        {[kind |-> "pt", a |-> ents[i].pts[1], b |-> ents[i].pts[1], r |-> 0] :
            i \in {j \in 1 .. Len(ents) :
                     /\ ents[j].type = "POINT"
                     /\ \A g \in DrawnLines(ents) : ~OnSeg(ents[j].pts[1], g)}}

\* the number of primitives of a cluster or of a library block
PrimCount(ents) == Len(ents)

SqClosed == <<DPoly(<< <<0, 0>>, <<2, 0>>, <<2, 2>>, <<0, 2>> >>, TRUE)>>

Sq3 ==
    <<DPoly(<< <<0, 0>>, <<2, 0>>, <<2, 2>> >>, FALSE),
      DPoly(<< <<2, 2>>, <<0, 2>> >>, FALSE),
      DPoly(<< <<0, 2>>, <<0, 0>> >>, FALSE)>>

Line1 == <<DLine(0, 0, 4, 0)>>

Line3 == <<DLine(0, 0, 4, 0), DLine(0, 0, 4, 0), DLine(0, 0, 4, 0)>>

LinePts == <<DLine(0, 0, 4, 0), DPoint(1, 0), DPoint(3, 0)>>

Circ == <<DCircle(2, 2, 2)>>

Rect == <<DPoly(<< <<0, 0>>, <<4, 0>>, <<4, 2>>, <<0, 2>> >>, TRUE)>>

Cross == <<DLine(0, 2, 4, 2), DLine(2, 0, 2, 4)>>

TemplatePool ==
    {[ents |-> sh, has_points |-> TRUE] : sh \in {SqClosed, Line1, Circ, Rect}}
        \cup {[ents |-> Line1, has_points |-> FALSE]}

ClusterPool == {SqClosed, Sq3, Line1, Line3, LinePts, Circ, Rect, Cross}

\* compute_descriptor of every shape of the pools, computed once
ShapeDescriptors ==
    [sh \in ClusterPool \cup {t.ents : t \in TemplatePool} |-> compute_descriptor(sh)]

\* the coarse pass (lines 751-755): the library entries whose doubled
\* descriptor distance is within the threshold, in library order
Coarse(cand, lib, thr) ==
    SelectSeq([i \in 1 .. Len(lib) |->
                  [s2 |-> descriptor_distance2(ShapeDescriptors[cand],
                                               ShapeDescriptors[lib[i].ents]),
                   name |-> i]],
              LAMBDA c : c.s2 <= 2 * thr)

CoarseKey(c) == <<c.s2>>

\* candidates.sort(key=...) and candidates[: max(1, coarse_topk)]
TopOf(kept, topk) ==
    SubSeq(SortByKey(kept, [i \in 1 .. Len(kept) |-> CoarseKey(kept[i])]),
           1, Min2(Max2(1, topk), Len(kept)))

CoarseTop(cand, lib, thr, topk) ==
    CHOOSE top \in {TopOf(kept, topk) : kept \in {Coarse(cand, lib, thr)}} : TRUE

\* similarity = max(0.0, 1.0 - best_chamfer / chamfer_threshold), as the
\* fraction num / den
Similarity(chamfer, cthr) == [num |-> Max2(0, cthr - chamfer), den |-> cthr]

\* a fine pass that reports the least Chamfer score whatever the threshold
FineOfAnyScore(top, lib, scores, cthr) ==
    LET withTpl == {k \in 1 .. Len(top) : lib[top[k].name].has_points}
        best == CHOOSE k \in withTpl :
                    /\ \A j \in withTpl : scores[top[j].name] >= scores[top[k].name]
                    /\ \A j \in withTpl : j < k => scores[top[j].name] > scores[top[k].name]
        passed == [k \in 1 .. Len(top) |-> top[k].name]
        none == [num |-> 0, den |-> 1]
    IN IF top = <<>>
       THEN [name |-> 0, why |-> "coarse", chamfer |-> 0, coarse2 |-> 0,
             passed |-> passed, similarity |-> none]
       ELSE IF withTpl = {}
       THEN [name |-> 0, why |-> "template", chamfer |-> 0, coarse2 |-> 0,
             passed |-> passed, similarity |-> none]
       ELSE [name |-> top[best].name, why |-> "match", chamfer |-> scores[top[best].name],
             coarse2 |-> top[best].s2, passed |-> passed,
             similarity |-> Similarity(scores[top[best].name], cthr)]

\* the fine pass (lines 763-779) and the similarity of line 862, over the
\* kept entries top: the first of them with the least Chamfer score among those that have template points; no
\* match when the coarse pass kept nothing, no kept entry has template points,
\* or the least score is above the Chamfer threshold
FineOf(top, lib, scores, cthr) ==
    LET withTpl == {k \in 1 .. Len(top) : lib[top[k].name].has_points}
        best == CHOOSE k \in withTpl :
                    /\ \A j \in withTpl : scores[top[j].name] >= scores[top[k].name]
                    /\ \A j \in withTpl : j < k => scores[top[j].name] > scores[top[k].name]
        passed == [k \in 1 .. Len(top) |-> top[k].name]
        none == [num |-> 0, den |-> 1]
    IN IF top = <<>>
       THEN [name |-> 0, why |-> "coarse", chamfer |-> 0, coarse2 |-> 0,
             passed |-> passed, similarity |-> none]
       ELSE IF withTpl = {}
       THEN [name |-> 0, why |-> "template", chamfer |-> 0, coarse2 |-> 0,
             passed |-> passed, similarity |-> none]
       ELSE IF scores[top[best].name] > cthr
            THEN [name |-> 0, why |-> "chamfer", chamfer |-> scores[top[best].name],
                  coarse2 |-> top[best].s2, passed |-> passed, similarity |-> none]
       ELSE [name |-> top[best].name, why |-> "match", chamfer |-> scores[top[best].name],
             coarse2 |-> top[best].s2, passed |-> passed,
             similarity |-> Similarity(scores[top[best].name], cthr)]

FineMatch(cand, lib, scores, thr, topk, cthr) ==
    CHOOSE m \in {FineOf(top, lib, scores, cthr) : top \in {CoarseTop(cand, lib, thr, topk)}} : TRUE

\* Chamfer scores in hundredths; the default threshold 0.06 is 6
ChScores == {0, 3, 7}

\* --score-threshold: the default, and two wider ones, the last admitting
\* templates of another shape than the cluster's
ScoreThresholds == {120, 200, 400}

CoarseTopKs == {1, 5}

FIdle ==
    /\ frefs = <<>>
    /\ fcands = <<>>
    /\ fmaxd = 0
    /\ ftopk = 0
    /\ fmatches = <<>>

HInit ==
    /\ xpc = "ch"
    /\ \E n \in 1 .. MaxRefs : hlib \in [1 .. n -> TemplatePool]
    /\ hcand \in ClusterPool
    /\ hscores \in [1 .. Len(hlib) -> ChScores]
    /\ \A i \in 1 .. Len(hlib) : (hscores[i] = 0) <=> (Drawn(hlib[i].ents) = Drawn(hcand))
    /\ hthr \in ScoreThresholds
    /\ htopk \in CoarseTopKs
    /\ hcthr = 6
    /\ hmatch = <<>>
    /\ FIdle
    /\ UFIdle /\ ClIdle /\ MIdle /\ RIdle /\ GIdle /\ LIdle /\ AuxIdle

\* one cluster through the coarse and the fine pass
ChMatch ==
    /\ xpc = "ch"
    /\ hmatch' = FineMatch(hcand, hlib, hscores, hthr, htopk, hcthr)
    /\ xpc' = "chdone"
    /\ UNCHANGED <<frefs, fcands, fmaxd, ftopk, fmatches, hlib, hcand, hscores, hthr, htopk, hcthr,
                   ufVars, clVars, mVars, rVars, gVars, lVars, auxVars>>

MatchSpec == (FInit \/ HInit) /\ [][FpMatch \/ ChMatch]_vars

Triple(cn, rn) == rn > 0 /\ cn = 3 * rn

\* C8, fingerprint half: no reported match pairs a candidate with a reference
\* of a third of its primitive count
C8_FingerprintGate ==
    xpc = "fpdone" =>
        \A k \in 1 .. Len(fmatches) :
            ~Triple(fcands[fmatches[k].cand].stats.n_primitives,
                    frefs[fmatches[k].ref_idx].stats.n_primitives)

\* C8: a candidate whose primitive count is 3 times a reference's is never
\* reported as a match to that reference, in the fingerprint path and in the
\* descriptor + Chamfer path alike
C8_TripleCountNeverMatches ==
    /\ C8_FingerprintGate
    /\ (xpc = "chdone" /\ hmatch.name # 0 =>
            ~Triple(PrimCount(hcand), PrimCount(hlib[hmatch.name].ents)))
\* the doubled descriptor distance of the candidate cluster to template i
CoarseDist2(i) == descriptor_distance2(ShapeDescriptors[hcand], ShapeDescriptors[hlib[i].ents])

\* the templates within the score threshold, and those passed to the fine stage
CoarseCandidates == {i \in 1 .. Len(hlib) : CoarseDist2(i) <= 2 * hthr}

Passed == {hmatch.passed[k] : k \in 1 .. Len(hmatch.passed)}

\* the passed templates the fine stage has points for
Scored == {i \in Passed : hlib[i].has_points}

BothTaggedDiffer(cand, ref) == cand.sig # "" /\ ref.sig # "" /\ cand.sig # ref.sig

\* the primitive-count test alone
CountRejected(cand, ref) ==
    /\ ref.stats.n_primitives > 0
    /\ cand.stats.n_primitives > 0
    /\ \/ 2 * cand.stats.n_primitives < ref.stats.n_primitives
       \/ cand.stats.n_primitives > 2 * ref.stats.n_primitives

\* the candidates the run reports
Reported == {fmatches[k].cand : k \in 1 .. Len(fmatches)}

\* no reported match pairs two different tags
NoMatchAcrossTags ==
    \A k \in 1 .. Len(fmatches) :
        ~BothTaggedDiffer(fcands[fmatches[k].cand], frefs[fmatches[k].ref_idx])

\* the tag test as the loop applies it: a tagged reference rejects every
\* candidate that does not carry its tag, an untagged reference none
TaggedRefDiffers(cand, ref) == ref.sig # "" /\ cand.sig # ref.sig

\* a reference within the threshold that passes the count test and whose tag,
\* if it has one, is the candidate's, gets the candidate reported
C19_TaggedReferenceRejects ==
    xpc = "fpdone" =>
        /\ NoMatchAcrossTags
        /\ \A c \in 1 .. Len(fcands) :
            (\E i \in 1 .. Len(frefs) :
                /\ ~TaggedRefDiffers(fcands[c], frefs[i])
                /\ ~CountRejected(fcands[c], frefs[i])
                /\ phash_hamming(fcands[c].phash, frefs[i].phash) <= fmaxd)
            => c \in Reported

\* C19: a reference is rejected on account of the text tag only when both the
\* candidate and the reference carry a tag and the tags differ; an untagged
\* candidate is still compared with a tagged reference, and a tagged candidate
\* with an untagged reference
C19_TagRejectsOnlyWhenBothDiffer ==
    xpc = "fpdone" =>
        /\ NoMatchAcrossTags
        /\ \A c \in 1 .. Len(fcands) :
            (\E i \in 1 .. Len(frefs) :
                /\ ~BothTaggedDiffer(fcands[c], frefs[i])
                /\ ~CountRejected(fcands[c], frefs[i])
                /\ phash_hamming(fcands[c].phash, frefs[i].phash) <= fmaxd)
            => c \in Reported

\* key is the smallest (Hamming distance, stats score) over the references
\* the candidate is not rejected against
IsBestKey(key, cand, refs) ==
    /\ \E i \in Kept(cand, refs) : MatchKey(cand, refs[i]) = key
    /\ \A j \in Kept(cand, refs) : ~TupLess(MatchKey(cand, refs[j]), key)

\* the keys of the candidate against the references it is not rejected against
KeysOf(cand, refs) == {MatchKey(cand, refs[i]) : i \in Kept(cand, refs)}

\* the candidates that kept a reference, and those whose best distance is
\* within the threshold
Comparable == {c \in 1 .. Len(fcands) : Kept(fcands[c], frefs) # {}}

WithinThreshold ==
    {c \in Comparable : \E key \in KeysOf(fcands[c], frefs) :
        IsBestKey(key, fcands[c], frefs) /\ key[1] <= fmaxd}

\* every reported entry names a kept reference of the smallest key, no
\* candidate is reported twice, and the entries are in (distance, stats
\* score) order
EntriesAreBest ==
    /\ \A k \in 1 .. Len(fmatches) :
        /\ fmatches[k].ref_idx \in Kept(fcands[fmatches[k].cand], frefs)
        /\ MatchKey(fcands[fmatches[k].cand], frefs[fmatches[k].ref_idx]) = SortKey(fmatches[k])
        /\ IsBestKey(SortKey(fmatches[k]), fcands[fmatches[k].cand], frefs)
    /\ \A k, l \in 1 .. Len(fmatches) :
        k < l => /\ fmatches[k].cand # fmatches[l].cand
                 /\ ~TupLess(SortKey(fmatches[l]), SortKey(fmatches[k]))

\* the K closest: K entries, or all the comparable candidates when there are
\* fewer, none farther than a candidate left out
ClosestK ==
    /\ Len(fmatches) = Min2(ftopk, Cardinality(Comparable))
    /\ \A k \in 1 .. Len(fmatches) :
        \A c \in Comparable \ Reported :
            \A key \in KeysOf(fcands[c], frefs) :
                IsBestKey(key, fcands[c], frefs) => ~TupLess(key, SortKey(fmatches[k]))

\* C20: each candidate's best match is the non-rejected reference of the
\* lexicographically smallest (Hamming distance, stats score); the reported
\* matches are exactly the candidates whose best distance is within the
\* threshold; only when there is none and top-K > 0 are the K closest
\* reported instead; with top-K = 0 nothing above the threshold is reported
C20_BestMatchThresholdTopK ==
    xpc = "fpdone" =>
        /\ EntriesAreBest
        /\ Reported \subseteq Comparable
        /\ WithinThreshold # {} => Reported = WithinThreshold
        /\ WithinThreshold = {} /\ ftopk > 0 => ClosestK
        /\ ftopk = 0 => \A k \in 1 .. Len(fmatches) : fmatches[k].dist <= fmaxd

\* the fallback at work: two comparable candidates, both above the threshold
\* and at different keys, and top-K = 1 reports the closer one
C20_Witness ==
    /\ xpc = "fpdone"
    /\ WithinThreshold = {} /\ ftopk = 1
    /\ Cardinality(Comparable) = 2
    /\ Len(fmatches) = 1
    /\ \E c \in Comparable \ Reported :
        \E key \in KeysOf(fcands[c], frefs) :
            IsBestKey(key, fcands[c], frefs) /\ TupLess(SortKey(fmatches[1]), key)
(***************************************************************************)
(* Fingerprints: _phash_from_vector and _phash_hamming                     *)
(* A fingerprint string is [ok, bits]: whether int(str, 16) accepts it and *)
(* the set of the bit positions that are 1. The source packs 64 bits; the  *)
(* model packs HashBits.                                                   *)
(***************************************************************************)
HashBits == 3

MaxVec == 4

\* v padded with 0.0 or cut to the fingerprint width (lines 719-722)
PadVec(vec) == [i \in 1 .. HashBits |-> IF i <= Len(vec) THEN vec[i] ELSE 0]

\* _phash_from_vector: bit (width - 1 - i) is 1 when v[i] > med, with
\* med = sorted(v)[len(v) // 2]; the empty vector gives the all-zero string
phash_from_vector(vec) ==
    IF vec = <<>> THEN [ok |-> TRUE, bits |-> {}]
    ELSE LET v == PadVec(vec)
             med == SortInts(v)[(HashBits \div 2) + 1]
         IN [ok |-> TRUE, bits |-> {HashBits - i : i \in {j \in 1 .. HashBits : v[j] > med}}]

\* a version that counts only the bits of a missing in b and looks only at a
\* for a malformed string
phash_hamming_one_sided(a, b) ==
    IF ~a.ok THEN 10 ^ 9 ELSE Cardinality(a.bits \ b.bits)

\* _phash_hamming on two strings: 10**9 when either does not parse
phash_hamming_str(a, b) ==
    IF ~a.ok \/ ~b.ok THEN 10 ^ 9 ELSE phash_hamming(a.bits, b.bits)

RECURSIVE SeqsUpTo(_, _)
SeqsUpTo(S, n) ==
    IF n = 0 THEN {<<>>}
    ELSE SeqsUpTo(S, n - 1) \cup {Append(q, x) : q \in {p \in SeqsUpTo(S, n - 1) : Len(p) = n - 1}, x \in S}

VecPool == SeqsUpTo({0, 1, 2}, MaxVec)

\* strings that did not come from _phash_from_vector: a malformed one (such
\* as the "" of a geometry without phash), and a hex string of more digits
StrPool == {[ok |-> FALSE, bits |-> {}], [ok |-> TRUE, bits |-> {HashBits}],
            [ok |-> TRUE, bits |-> {0, HashBits}]}

PhArgs == {[kind |-> "vec", vec |-> v, str |-> phash_from_vector(v)] : v \in VecPool}
              \cup {[kind |-> "str", vec |-> <<>>, str |-> x] : x \in StrPool}

PhInit ==
    /\ pha \in PhArgs
    /\ phb \in PhArgs
    /\ phd = <<>>
    /\ UFIdle /\ ClIdle /\ MIdle /\ RIdle /\ GIdle /\ LIdle /\ XIdle
    /\ CbIdle /\ VIdle /\ EIdle /\ KIdle /\ MoreIdle

\* the calls _phash_hamming(a, b), (b, a) and (a, a)
PhCompare ==
    /\ phd = <<>>
    /\ phd' = [ab |-> phash_hamming_str(pha.str, phb.str),
               ba |-> phash_hamming_str(phb.str, pha.str),
               aa |-> phash_hamming_str(pha.str, pha.str)]
    /\ UNCHANGED <<pha, phb, ufVars, clVars, mVars, rVars, gVars, lVars, xVars,
                   cbVars, vVars, eVars, kVars, moreVars>>

PhashSpec == PhInit /\ [][PhCompare]_vars

\* C11: the distance of a fingerprint produced by _phash_from_vector to
\* itself is 0, and the distance of any two arguments is the same in both
\* orders
C11_HammingZeroAndSymmetric ==
    phd # <<>> =>
        /\ (pha.kind = "vec" => phd.aa = 0)
        /\ phd.ab = phd.ba

C11_Witness ==
    /\ phd # <<>>
    /\ pha.kind = "vec" /\ Len(pha.vec) > HashBits /\ pha.str.bits # {}
    /\ phd.aa = 0
    /\ phd.ab > 0 /\ phd.ab < 10 ^ 9
    /\ pha.str.bits \ phb.str.bits # {} /\ phb.str.bits \ pha.str.bits = {}
(***************************************************************************)
(* chamfer_best_rotation of symbol_lib.py on a cloud against itself        *)
(* Points are integers, distances are in tenths (rounded down). A score is *)
(* <<d, e>>: d the exact value times 2 * len(P), e = 1 when rounding in    *)
(* rotate_points left a residue far below one tenth; <<d, e>> are compared *)
(* in lexicographic order, as the floats are.                              *)
(***************************************************************************)
MaxPts == 2

MaxAngles == 2

ScoreInf == 10 ^ 6

ISqrt10(d2) == CHOOSE r \in 0 .. 100 : r * r <= 100 * d2 /\ 100 * d2 < (r + 1) * (r + 1)

\* rotate_points: points @ R.T with R = [[c, -s], [s, c]], for multiples of 90
rotate_points(points, deg) ==
    [i \in 1 .. Len(points) |->
        CASE deg = 0 -> points[i]
          [] deg = 90 -> <<-points[i][2], points[i][1]>>
          [] deg = 180 -> <<-points[i][1], -points[i][2]>>
          [] deg = 270 -> <<points[i][2], -points[i][1]>>]

RECURSIVE SumSeq(_, _)
SumSeq(q, i) == IF i > Len(q) THEN 0 ELSE q[i] + SumSeq(q, i + 1)

\* _mean_nn_distance times len(a): the sum over a of the distance to the
\* nearest point of b
SumNN(a, b) ==
    LET nn == [i \in 1 .. Len(a) |->
                  ISqrt10(SetMin({Dist2(a[i], b[j]) : j \in 1 .. Len(b)}))]
    IN SumSeq(nn, 1)

\* chamfer_distance (symmetric) of two clouds of one length, times 2 * len
chamfer_distance(a, b) ==
    IF Len(a) = 0 \/ Len(b) = 0 THEN ScoreInf ELSE SumNN(a, b) + SumNN(b, a)

ScoreLess(x, y) == x[1] < y[1] \/ (x[1] = y[1] /\ x[2] < y[2])

\* the loop of chamfer_best_rotation over angles[k ..], from (best_score,
\* best_angle): "if s < best_score" replaces both
RECURSIVE BestRotationFrom(_, _, _, _, _)
BestRotationFrom(tpl, cand, angles, k, best) ==
    IF k > Len(angles) THEN best
    ELSE BestRotationFrom(tpl, cand, angles, k + 1,
            CHOOSE nb \in {IF ScoreLess(sc, best.score)
                           THEN [score |-> sc, angle |-> angles[k].deg]
                           ELSE best :
                              sc \in {<<chamfer_distance(rotate_points(tpl, angles[k].deg), cand),
                                        angles[k].eps>>}} : TRUE)

chamfer_best_rotation(tpl, cand, angles) ==
    BestRotationFrom(tpl, cand, angles, 1, [score |-> <<ScoreInf, 0>>, angle |-> 0])
Grid3 == {<<x, y>> : x \in {-1, 0, 1}, y \in {-1, 0, 1}}

\* clouds of up to MaxPts points, and two clouds that a quarter turn maps to
\* themselves
CloudPool ==
    SeqsUpTo(Grid3, MaxPts)
        \cup {<< <<1, 1>>, <<-1, 1>>, <<-1, -1>>, <<1, -1>> >>,
              << <<1, 0>>, <<0, 1>>, <<-1, 0>>, <<0, -1>>, <<0, 0>> >>}

\* rotate_points is exact for angle 0 (cos = 1, sin = 0) and on points at the
\* origin; elsewhere the float sin and cos of the angle may leave a residue
MayRound(points, deg) == deg # 0 /\ \E i \in 1 .. Len(points) : points[i] # <<0, 0>>

AnglePool(points) ==
    {a \in SeqsUpTo([deg : {0, 90, 180, 270}, eps : {0, 1}], MaxAngles) :
        /\ a # <<>>
        /\ \A i, j \in 1 .. Len(a) : i # j => a[i].deg # a[j].deg
        /\ \A i \in 1 .. Len(a) : a[i].eps = 1 => MayRound(points, a[i].deg)}

CbInit ==
    /\ cbP \in CloudPool
    /\ cbAngles \in AnglePool(cbP)
    /\ cbRet = <<>>
    /\ UFIdle /\ ClIdle /\ MIdle /\ RIdle /\ GIdle /\ LIdle /\ XIdle
    /\ PhIdle /\ VIdle /\ EIdle /\ KIdle /\ MoreIdle

\* chamfer_best_rotation(P, P, angles_deg=cbAngles)
CbCall ==
    /\ cbRet = <<>>
    /\ cbRet' = chamfer_best_rotation(cbP, cbP, cbAngles)
    /\ UNCHANGED <<cbP, cbAngles, ufVars, clVars, mVars, rVars, gVars, lVars, xVars,
                   phVars, vVars, eVars, kVars, moreVars>>

ChamferSpec == CbInit /\ [][CbCall]_vars

HasZero(angles) == \E i \in 1 .. Len(angles) : angles[i].deg = 0

\* the returned score is 0 up to rounding whenever the angle set includes 0
C12_ScoreZero ==
    cbRet # <<>> /\ cbP # <<>> /\ HasZero(cbAngles) => cbRet.score[1] = 0

\* C12: on a non-empty cloud against itself, with 0 degrees anywhere in the
\* angle set, the returned score is 0 (up to rounding) and the returned angle
\* is 0, also when other angles of the set reach the same score
C12_SelfMatchAtZero ==
    cbRet # <<>> /\ cbP # <<>> /\ HasZero(cbAngles) =>
        cbRet.score[1] = 0 /\ cbRet.angle = 0
(***************************************************************************)
(* cluster_entities_connectivity of recognize_replace_symbols.py           *)
(* An entity is the list of its key points (entity_key_points); lengths    *)
(* are integers, cell_size 0 stands for "not given".                       *)
(***************************************************************************)
MaxKEnts == 3

\* "if not math.isfinite(tol) or tol <= 0: tol = 1.0"
EffTol(tol) == IF tol <= 0 THEN 1 ELSE tol

\* cell: cell_size when given and above 1e-9, else tol * 4.0
EffCell(tol, cell_size) == IF cell_size > 0 THEN cell_size ELSE EffTol(tol) * 4

\* key(x, y) = (floor(x / cell), floor(y / cell))
CellKey(p, cell) == <<p[1] \div cell, p[2] \div cell>>

\* the key points in the order the two loops visit them, each with the index
\* of its entity
RECURSIVE KeyPoints(_, _)
KeyPoints(ents, i) ==
    IF i > Len(ents) THEN <<>>
    ELSE [n \in 1 .. Len(ents[i]) |-> [i |-> i - 1, p |-> ents[i][n]]] \o KeyPoints(ents, i + 1)

\* the test made on the point q found in the grid while p is visited: q lies
\* in one of the 3 x 3 cells around the cell of p, belongs to another entity
\* and is within tol of p
GridHit(a, b, tol, cell) ==
    /\ Abs(CellKey(a.p, cell)[1] - CellKey(b.p, cell)[1]) <= 1
    /\ Abs(CellKey(a.p, cell)[2] - CellKey(b.p, cell)[2]) <= 1
    /\ a.i # b.i
    /\ Dist2(a.p, b.p) <= tol * tol

\* the loop over the key points: point n against the points m < n, which
\* are those already in the grid
RECURSIVE KScan(_, _, _, _, _, _)
KScan(uf, pts, n, m, tol, cell) ==
    IF n > Len(pts) THEN uf
    ELSE IF m >= n THEN KScan(uf, pts, n + 1, 1, tol, cell)
    ELSE KScan(IF GridHit(pts[n], pts[m], tol, cell)
               THEN UFUnion(uf.parent, uf.rank, pts[n].i, pts[m].i)
               ELSE uf,
               pts, n, m + 1, tol, cell)

\* cluster_entities_connectivity: the clusters as the set of their index sets
cluster_entities_connectivity(ents, tol, cell_size) ==
    IF ents = <<>> THEN {}
    ELSE UFGroups(KScan([parent |-> UFInitParent(Len(ents)), rank |-> UFInitRank(Len(ents))],
                        KeyPoints(ents, 1), 1, 1, EffTol(tol), EffCell(tol, cell_size)).parent)

KEntPool ==
    {<< <<x, 0>> >> : x \in 0 .. 4} \cup
        {<< <<0, 0>>, <<0, 2>> >>, << <<2, 0>>, <<2, 2>> >>, << <<3, 3>>, <<4, 4>> >>, <<>>}

KTols == {1, 2}

KCells == {0, 1, 2, 3}

KInit ==
    /\ kents \in SeqsUpTo(KEntPool, MaxKEnts) \ {<<>>}
    /\ ktol \in KTols
    /\ kcell \in KCells
    /\ kout = <<>>
    /\ UFIdle /\ ClIdle /\ MIdle /\ RIdle /\ GIdle /\ LIdle /\ XIdle
    /\ PhIdle /\ CbIdle /\ VIdle /\ EIdle /\ MoreIdle

KCluster ==
    /\ kout = <<>>
    /\ kout' = [clusters |-> cluster_entities_connectivity(kents, ktol, kcell)]
    /\ UNCHANGED <<kents, ktol, kcell, ufVars, clVars, mVars, rVars, gVars, lVars, xVars,
                   phVars, cbVars, vVars, eVars, moreVars>>

ConnSpec == KInit /\ [][KCluster]_vars

\* some key point of entity i lies within tol of some key point of entity j
WithinTol(i, j) ==
    \E a \in 1 .. Len(kents[i + 1]), b \in 1 .. Len(kents[j + 1]) :
        Dist2(kents[i + 1][a], kents[j + 1][b]) <= ktol * ktol

\* the connected components of the relation WithinTol
TolComponents ==
    LET es == {{i, j} : i \in 0 .. (Len(kents) - 1), j \in 0 .. (Len(kents) - 1)}
        near == {e \in es : \E i \in e, j \in e : i # j /\ WithinTol(i, j)}
    IN {Reach(near, {i}) : i \in 0 .. (Len(kents) - 1)}

\* with a cell no smaller than tol the clusters are the components
C18_ComponentsWhenCellCovers ==
    kout # <<>> /\ EffCell(ktol, kcell) >= ktol => kout.clusters = TolComponents

\* C18: for every tol > 0 and every accepted cell_size, also one smaller than
\* tol, the clusters are the connected components of the relation "some key
\* point of one lies within tol of some key point of the other"
C18_ClustersAreComponents == kout # <<>> => kout.clusters = TolComponents
(***************************************************************************)
(* The operations that take a tolerance, a grid step or a sample step,     *)
(* called with positive and with non-positive values. Values and grid      *)
(* steps are in hundredths.                                                *)
(***************************************************************************)
MaxStep == 2

Raised == [kind |-> "error", out |-> 0]

Returned(v) == [kind |-> "value", out |-> v]

\* qkey with its test "if tol <= 0: raise ValueError"
qkey_checked(x, y, tol) == IF tol <= 0 THEN Raised ELSE Returned(qkey(x, y, tol))

\* _qf: "if grid <= 0.0: grid = 0.01", then int(round(v / grid))
qf(v, grid) == Returned(RoundDiv(v, IF grid <= 0 THEN 1 ELSE grid))

\* quantize of symbol_lib.py: "if step <= 0: raise ValueError"
quantize(value, step) == IF step <= 0 THEN Raised ELSE Returned(RoundDiv(value, step))

\* point_cloud_from_entities on one LINE that spans the bbox: the step is
\* norm / sample_div, or norm / 30.0 when sample_div is not positive, and
\* add_line puts max(2, ceil(ln / step) + 1) points on the line
point_cloud_count(sample_div) ==
    Returned(Max2(2, (IF sample_div > 0 THEN sample_div ELSE 30) + 1))

\* sample_points_from_entities on one LINE of length ln: with step 0 the
\* division raises inside the "try" and the entity is skipped
sample_points_count(ln, step) ==
    IF step = 0 THEN Returned(0)
    ELSE IF step < 0 THEN Returned(Max2(2, (-(ln \div (-step))) + 1))
    ELSE Returned(Max2(2, (-((-ln) \div step)) + 1))

\* the two POINT entities the clustering call is made on
TwoPoints == << << <<0, 0>> >>, << <<1, 0>> >> >>

Apply(call) ==
    CASE call.op = "qkey" -> qkey_checked(call.value, call.value, call.step)
      [] call.op = "_qf" -> qf(call.value, call.step)
      [] call.op = "quantize" -> quantize(call.value, call.step)
      [] call.op = "cluster_entities_connectivity" ->
            Returned(cluster_entities_connectivity(TwoPoints, call.step, 0))
      [] call.op = "point_cloud_from_entities" -> point_cloud_count(call.step)
      [] call.op = "sample_points_from_entities" -> sample_points_count(call.value + 3, call.step)

VOps == {"qkey", "_qf", "quantize", "cluster_entities_connectivity",
         "point_cloud_from_entities", "sample_points_from_entities"}

VInit ==
    /\ vcall \in [op : VOps, value : -2 .. 3, step : -1 .. MaxStep]
    /\ vres = <<>>
    /\ UFIdle /\ ClIdle /\ MIdle /\ RIdle /\ GIdle /\ LIdle /\ XIdle
    /\ PhIdle /\ CbIdle /\ EIdle /\ KIdle /\ MoreIdle

VCall ==
    /\ vres = <<>>
    /\ vres' = Apply(vcall)
    /\ UNCHANGED <<vcall, ufVars, clVars, mVars, rVars, gVars, lVars, xVars,
                   phVars, cbVars, eVars, kVars, moreVars>>

ValidSpec == VInit /\ [][VCall]_vars

\* qkey and quantize raise exactly on a non-positive tolerance or step
C14_CheckedOpsRaise ==
    vres # <<>> /\ vcall.op \in {"qkey", "quantize"} =>
        (vres.kind = "error" <=> vcall.step <= 0)

\* C14: every operation that takes a tolerance, a grid step or a sample step
\* fails with a validation error, and produces no result, when that value is
\* not positive
C14_NonPositiveFailsFast ==
    vres # <<>> /\ vcall.step <= 0 => vres.kind = "error"

(***************************************************************************)
(* encode_point_cloud / decode_point_cloud of symbol_lib.py                *)
(*                                                                         *)
(* A coordinate of the cloud is kept as the integer k of the float         *)
(* k/scale, so that p * scale rounds to k; a decoded coordinate is kept    *)
(* as the integer q together with the divisor it is divided by.            *)
(***************************************************************************)
MaxCloud == 2

\* np.int16
Int16Bits == 16

Int16Max == 2 ^ (Int16Bits - 1) - 1

Int16Min == -(2 ^ (Int16Bits - 1))

\* the scale decode_point_cloud falls back to
DefaultScale == 32767

\* np.clip(p, -1.0, 1.0), on p = k/scale with scale > 0
Clip(k, scale) == IF k < -scale THEN -scale ELSE IF k > scale THEN scale ELSE k

\* astype(np.int16) of an integral float: the value itself when it fits; out of
\* range the conversion is undefined, and a build either keeps the low 16 bits
\* or saturates
AsInt16(v, cast) ==
    IF v >= Int16Min /\ v <= Int16Max THEN v
    ELSE IF cast = "wrap" THEN ((v - Int16Min) % (2 ^ Int16Bits)) + Int16Min
    ELSE IF v > 0 THEN Int16Max ELSE Int16Min

CastModes == {"wrap", "saturate"}

\* q.tobytes(): row-major, two little-endian bytes per value
ToBytes(q) ==
    [i \in 1 .. 4 * Len(q) |->
        LET v == q[(i + 3) \div 4][IF (i - 1) % 4 < 2 THEN 1 ELSE 2]
            u == v % (2 ^ Int16Bits)
        IN  IF i % 2 = 1 THEN u % 256 ELSE u \div 256]

\* np.frombuffer(raw, dtype=np.int16): the i-th value of the buffer
FromBytes(raw, i) ==
    LET u == raw[2 * i - 1] + 256 * raw[2 * i]
    IN  IF u > Int16Max THEN u - 2 ^ Int16Bits ELSE u

\* zlib.compress and base64 carry the bytes unchanged to the decoder
\* (zlib.decompress, base64.b64decode); data_b64 is kept as those bytes, and
\* the empty text as the empty sequence
encode_point_cloud(points, scale, cast) ==
    IF points = <<>>
    THEN [n |-> 0, scale |-> scale, data_b64 |-> <<>>]
    ELSE LET q == [i \in 1 .. Len(points) |->
                    <<AsInt16(Clip(points[i][1], scale), cast),
                      AsInt16(Clip(points[i][2], scale), cast)>>]
         IN  [n |-> Len(q), scale |-> scale, data_b64 |-> ToBytes(q)]

\* the decoded array q and the scale it is divided by
decode_point_cloud(data) ==
    LET n == data.n
        scale == IF data.scale = 0 THEN DefaultScale ELSE data.scale
        b64 == data.data_b64
    IN  IF n <= 0 \/ b64 = <<>>
        THEN [q |-> <<>>, scale |-> scale]
        ELSE [q |-> [i \in 1 .. n |-> <<FromBytes(b64, 2 * i - 1),
                                        FromBytes(b64, 2 * i)>>],
              scale |-> scale]

\* --point-scale values: around 1, the default, and beyond the int16 range
ScalePool == {1, 2, 32767, 32768, 40000}

\* coordinates k/scale: inside [-1, 1], on its ends, and outside
CoordPool(scale) == {-scale - 1, -scale, 0, 1, scale}

EClouds(scale) ==
    UNION {[1 .. n -> CoordPool(scale) \X CoordPool(scale)] : n \in 0 .. MaxCloud}

EInit ==
    /\ escale \in ScalePool
    /\ ecloud \in EClouds(escale)
    /\ eret = <<>>
    /\ UFIdle /\ ClIdle /\ MIdle /\ RIdle /\ GIdle /\ LIdle /\ XIdle
    /\ PhIdle /\ CbIdle /\ VIdle /\ KIdle /\ MoreIdle

\* d = encode_point_cloud(P, scale=scale); decode_point_cloud(d); and the
\* decoded cloud encoded again at the scale of d
ERoundTrip ==
    /\ eret = <<>>
    /\ \E cast \in CastModes :
        \E enc \in {encode_point_cloud(ecloud, escale, cast)} :
            \E dec \in {decode_point_cloud(enc)} :
                eret' = [enc |-> enc, dec |-> dec,
                         reenc |-> encode_point_cloud(dec.q, enc.scale, cast)]
    /\ UNCHANGED <<ecloud, escale, ufVars, clVars, mVars, rVars, gVars, lVars,
                   xVars, phVars, cbVars, vVars, kVars, moreVars>>

EncSpec == EInit /\ [][ERoundTrip]_vars

\* every coordinate of the cloud is a multiple of 1/scale in [-1, 1]
InUnitSquare ==
    \A i \in 1 .. Len(ecloud) :
        \A j \in 1 .. 2 : ecloud[i][j] >= -escale /\ ecloud[i][j] <= escale

\* the decoded cloud is the cloud that was encoded: as many points, and
\* q / scale = k / escale coordinate by coordinate
DecodedIsCloud ==
    /\ Len(eret.dec.q) = Len(ecloud)
    /\ \A i \in 1 .. Len(ecloud) :
        \A j \in 1 .. 2 : eret.dec.q[i][j] * escale = ecloud[i][j] * eret.dec.scale

\* at a scale that fits the int16 range the round trip is exact both ways
C17_ExactWhenScaleFits ==
    eret # <<>> /\ InUnitSquare /\ escale <= Int16Max =>
        DecodedIsCloud /\ eret.reenc = eret.enc

\* C17: decode_point_cloud is the exact inverse of encode_point_cloud for
\* every scale, scales above 32767 included: a cloud of multiples of 1/scale
\* in [-1, 1] is decoded to itself, point by point in order, and a record
\* produced by encode is encoded again from its decoding
C17_DecodeInvertsEncode ==
    eret # <<>> /\ InUnitSquare => DecodedIsCloud /\ eret.reenc = eret.enc

(***************************************************************************)
(* detect_frame_and_titleblock                                             *)
(* The modelspace holds line-like entities of continuous linetype with     *)
(* integer coordinates; an entity's handle is its position in items.       *)
(* tol and title_ratio are in tenths, and so is edge_eps.                  *)
(***************************************************************************)
\* entity_bbox of a LINE or a polyline
ItemBox(e) ==
    <<SetMin({e.pts[k][1] : k \in 1 .. Len(e.pts)}), SetMin({e.pts[k][2] : k \in 1 .. Len(e.pts)}),
      SetMax({e.pts[k][1] : k \in 1 .. Len(e.pts)}), SetMax({e.pts[k][2] : k \in 1 .. Len(e.pts)})>>

\* (minx, miny, maxx, maxy) over all_bbs
Extent(items) == UnionOfSet({ItemBox(items[k]) : k \in 1 .. Len(items)})

\* edge_eps = max(frame_tol * 2.0, tol * 5.0), in tenths
EdgeEps10(cfg) == Max2(20 * cfg.frame_tol, 5 * cfg.tol10)

\* abs(a - b) < edge_eps
Near(a, b, cfg) == 10 * Abs(a - b) < EdgeEps10(cfg)

\* bw > w * seed_ratio and bh > h * seed_ratio, seed_ratio = 0.8
Wide(bb, ext) == 5 * (bb[3] - bb[1]) > 4 * (ext[3] - ext[1])

Tall(bb, ext) == 5 * (bb[4] - bb[2]) > 4 * (ext[4] - ext[2])

\* the four sides of the bbox lie on the four sides of the extent
MatchesExtent(bb, ext, cfg) ==
    Near(bb[1], ext[1], cfg) /\ Near(bb[2], ext[2], cfg)
        /\ Near(bb[3], ext[3], cfg) /\ Near(bb[4], ext[4], cfg)

\* the test of the loop that collects seeds
IsSeed(bb, ext, cfg) ==
    \/ (Near(bb[2], ext[2], cfg) \/ Near(bb[4], ext[4], cfg)) /\ Wide(bb, ext)
    \/ (Near(bb[1], ext[1], cfg) \/ Near(bb[3], ext[3], cfg)) /\ Tall(bb, ext)
    \/ MatchesExtent(bb, ext, cfg)

\* the indices i of items, in order, that satisfy a test
RECURSIVE IndicesFrom(_, _, _)
IndicesFrom(i, n, S) ==
    IF i >= n THEN <<>> ELSE (IF i \in S THEN <<i>> ELSE <<>>) \o IndicesFrom(i + 1, n, S)

Seeds(items, cfg) ==
    IndicesFrom(0, Len(items),
                {i \in 0 .. (Len(items) - 1) : IsSeed(ItemBox(items[i + 1]), Extent(items), cfg)})

\* buckets[k]: the items with a connection point of key k, in order
Bucket(items, k, cfg) ==
    IndicesFrom(0, Len(items),
                {i \in 0 .. (Len(items) - 1) :
                    \E n \in 1 .. Len(entity_connection_points(items[i + 1])) :
                        qkey(entity_connection_points(items[i + 1])[n][1],
                             entity_connection_points(items[i + 1])[n][2], cfg.frame_tol) = k})

\* the items met while item i is expanded: the buckets of its connection
\* points, one after the other
RECURSIVE Met(_, _, _, _)
Met(items, i, n, cfg) ==
    IF n > Len(entity_connection_points(items[i + 1])) THEN <<>>
    ELSE Bucket(items, qkey(entity_connection_points(items[i + 1])[n][1],
                            entity_connection_points(items[i + 1])[n][2], cfg.frame_tol), cfg)
            \o Met(items, i, n + 1, cfg)

InQueue(q, j) == \E n \in 1 .. Len(q) : q[n] = j

\* an expansion that appends every allowed item it meets, visited or not
RECURSIVE AddAllRevisit(_, _, _, _)
AddAllRevisit(q, js, n, allowed) ==
    IF n > Len(js) THEN q
    ELSE AddAllRevisit(IF js[n] \in allowed THEN Append(q, js[n]) ELSE q, js, n + 1, allowed)

\* "if j in frame_set: continue; frame_set.add(j); q.append(j)", restricted
\* to the allowed items in the second BFS
RECURSIVE AddAll(_, _, _, _)
AddAll(q, js, n, allowed) ==
    IF n > Len(js) THEN q
    ELSE AddAll(IF js[n] \in allowed /\ ~InQueue(q, js[n]) THEN Append(q, js[n]) ELSE q,
                js, n + 1, allowed)

\* the loop over frame_set that collects outer_border
OuterBorder(frame_set, items, cfg) ==
    {i \in frame_set :
        LET bb == ItemBox(items[i + 1])
            ext == Extent(items)
        IN \/ Wide(bb, ext) /\ Near(bb[2], ext[2], cfg) /\ Near(bb[4], ext[2], cfg)
           \/ Wide(bb, ext) /\ Near(bb[2], ext[4], cfg) /\ Near(bb[4], ext[4], cfg)
           \/ Tall(bb, ext) /\ Near(bb[1], ext[1], cfg) /\ Near(bb[3], ext[1], cfg)
           \/ Tall(bb, ext) /\ Near(bb[1], ext[3], cfg) /\ Near(bb[3], ext[3], cfg)
           \/ MatchesExtent(bb, ext, cfg)}

\* in_title_zone: cx >= zone_x0 and cy <= zone_y1
in_title_zone(bb, ext, cfg) ==
    /\ 10 * (bb[1] + bb[3])
          >= 20 * ext[3] - 2 * (ext[3] - ext[1]) * cfg.title_ratio10 - 2 * EdgeEps10(cfg)
    /\ 10 * (bb[2] + bb[4])
          <= 20 * ext[2] + 2 * (ext[4] - ext[2]) * cfg.title_ratio10 + 2 * EdgeEps10(cfg)

TitleZone(items, cfg) ==
    {i \in 0 .. (Len(items) - 1) : in_title_zone(ItemBox(items[i + 1]), Extent(items), cfg)}

\* "if tw > w * 0.8 or th > h * 0.8: title_bbox = None"
TitleRejected(tb, ext) == 5 * (tb[3] - tb[1]) > 4 * (ext[3] - ext[1])
                              \/ 5 * (tb[4] - tb[2]) > 4 * (ext[4] - ext[2])

\* the last loop: a single entity whose bbox is the whole extent
FullExtent(items, cfg) ==
    {i \in 0 .. (Len(items) - 1) :
        LET bb == ItemBox(items[i + 1])
            ext == Extent(items)
            m == Max2(ext[3] - ext[1], ext[4] - ext[2])
        IN /\ MatchesExtent(bb, ext, cfg)
           /\ 25 * ((bb[3] - bb[1]) * (bb[3] - bb[1]) + (bb[4] - bb[2]) * (bb[4] - bb[2]))
                 > 16 * m * m}

\* the tail of the function, from "title_bbox = None" to the return; None
\* is the empty tuple
FrameResult(title_set, outer_border, items, cfg) ==
    LET tb == IF title_set = {} THEN <<>>
              ELSE UnionOfSet({ItemBox(items[i + 1]) : i \in title_set})
    IN [title_bbox |-> IF tb # <<>> /\ TitleRejected(tb, Extent(items)) THEN <<>> ELSE tb,
        exclude_handles |-> outer_border \cup title_set \cup FullExtent(items, cfg),
        title_set |-> title_set]

\* a drawing of 10 x 10: the frame as one closed polyline; title-block lines
\* hanging on its lower right corner, 4 wide, 8 wide (80% of the width) and
\* 9 wide; a symbol line in the middle; a line off every other
FramePool ==
    << Polyline(<< <<0, 0>>, <<10, 0>>, <<10, 10>>, <<0, 10>> >>, TRUE),
       Line(<<10, 0>>, <<10, 3>>),
       Line(<<10, 3>>, <<6, 3>>),
       Line(<<6, 3>>, <<6, 0>>),
       Line(<<10, 3>>, <<2, 3>>),
       Line(<<10, 3>>, <<1, 3>>),
       Line(<<2, 6>>, <<4, 6>>) >>

\* --tol 0.1 (the default), --frame-tol 1, --title-ratio 0.3 (the default)
FrameCfgs == {[tol10 |-> 1, frame_tol |-> 1, title_ratio10 |-> 3]}

TInit ==
    /\ \E S \in SUBSET (1 .. Len(FramePool)) \ {{}} :
          titems = [k \in 1 .. Cardinality(S) |-> FramePool[SortedSeq(S)[k]]]
    /\ tcfg \in FrameCfgs
    /\ tpc = "start"
    /\ tq = <<>>
    /\ thead = 0
    /\ touter = {}
    /\ tinner = {}
    /\ tret = <<>>
    /\ UFIdle /\ ClIdle /\ MIdle /\ RIdle /\ GIdle /\ LIdle /\ XIdle
    /\ PhIdle /\ CbIdle /\ VIdle /\ EIdle /\ KIdle /\ LateIdle

\* the extent, the early return "if w <= 0.0 or h <= 0.0", the seeds, the
\* buckets and the queue of the first BFS
TStart ==
    /\ tpc = "start"
    /\ IF Extent(titems)[3] - Extent(titems)[1] <= 0 \/ Extent(titems)[4] - Extent(titems)[2] <= 0
       THEN /\ tpc' = "done"
            /\ tret' = [title_bbox |-> <<>>, exclude_handles |-> {}, title_set |-> {}]
            /\ tq' = tq
       ELSE /\ tpc' = "frame"
            /\ tq' = Seeds(titems, tcfg)
            /\ tret' = tret
    /\ UNCHANGED <<titems, tcfg, thead, touter, tinner,
                   ufVars, clVars, mVars, rVars, gVars, lVars, xVars,
                   phVars, cbVars, vVars, eVars, kVars, lateVars>>

\* one turn of "while head < len(q)" of the first BFS
TFrameStep ==
    /\ tpc = "frame"
    /\ thead < Len(tq)
    /\ tq' = AddAll(tq, Met(titems, tq[thead + 1], 1, tcfg), 1, 0 .. (Len(titems) - 1))
    /\ thead' = thead + 1
    /\ UNCHANGED <<titems, tcfg, tpc, touter, tinner, tret,
                   ufVars, clVars, mVars, rVars, gVars, lVars, xVars,
                   phVars, cbVars, vVars, eVars, kVars, lateVars>>

\* the first BFS is over: outer_border, inner, tb_seeds and the queue of the
\* second BFS
TFrameDone ==
    /\ tpc = "frame"
    /\ thead = Len(tq)
    /\ \E frame_set \in {{tq[n] : n \in 1 .. Len(tq)}} :
        \E outer \in {OuterBorder(frame_set, titems, tcfg)} :
            \E inner \in {IF frame_set # {} THEN frame_set \ outer
                          ELSE 0 .. (Len(titems) - 1)} :
                /\ touter' = outer
                /\ tinner' = inner
                /\ tq' = IndicesFrom(0, Len(titems), inner \cap TitleZone(titems, tcfg))
    /\ thead' = 0
    /\ tpc' = "title"
    /\ UNCHANGED <<titems, tcfg, tret,
                   ufVars, clVars, mVars, rVars, gVars, lVars, xVars,
                   phVars, cbVars, vVars, eVars, kVars, lateVars>>

\* one turn of "while head < len(q2)" of the second BFS
TTitleStep ==
    /\ tpc = "title"
    /\ thead < Len(tq)
    /\ tq' = AddAll(tq, Met(titems, tq[thead + 1], 1, tcfg), 1,
                    tinner \cap TitleZone(titems, tcfg))
    /\ thead' = thead + 1
    /\ UNCHANGED <<titems, tcfg, tpc, touter, tinner, tret,
                   ufVars, clVars, mVars, rVars, gVars, lVars, xVars,
                   phVars, cbVars, vVars, eVars, kVars, lateVars>>

\* the second BFS is over: title_bbox, its rejection, exclude_handles, return
TReturn ==
    /\ tpc = "title"
    /\ thead = Len(tq)
    /\ tret' = FrameResult({tq[n] : n \in 1 .. Len(tq)}, touter, titems, tcfg)
    /\ tpc' = "done"
    /\ UNCHANGED <<titems, tcfg, tq, thead, touter, tinner,
                   ufVars, clVars, mVars, rVars, gVars, lVars, xVars,
                   phVars, cbVars, vVars, eVars, kVars, lateVars>>

TNext == TStart \/ TFrameStep \/ TFrameDone \/ TTitleStep \/ TReturn

FrameSpec == TInit /\ [][TNext]_vars

\* the bbox of the collected title-block set, and the share of the drawing
\* it covers
CollectedBox == UnionOfSet({ItemBox(titems[i + 1]) : i \in tret.title_set})

Covers80 ==
    \/ 5 * (CollectedBox[3] - CollectedBox[1]) >= 4 * (Extent(titems)[3] - Extent(titems)[1])
    \/ 5 * (CollectedBox[4] - CollectedBox[2]) >= 4 * (Extent(titems)[4] - Extent(titems)[2])

CoversOver80 == TitleRejected(CollectedBox, Extent(titems))

\* a title-block set covering more than 80% of a dimension yields no title bbox
C24_NoTitleBoxOver80 ==
    tpc = "done" /\ tret.title_set # {} /\ CoversOver80 => tret.title_bbox = <<>>

\* C24: when the bbox of the collected title-block set covers 80% or more of
\* the drawing's width or height, the result is rejected: no title bbox is
\* returned, and the members of the set are in the exclusion set only if
\* they are outer border or span the full extent themselves
C24_ImplausibleTitleRejected ==
    tpc = "done" /\ tret.title_set # {} /\ Covers80 =>
        /\ tret.title_bbox = <<>>
        /\ tret.title_set \cap tret.exclude_handles
              \subseteq touter \cup FullExtent(titems, tcfg)

\* the loops without an iteration counter side by side: a run of
\* merge_by_bbox_iterative or a run of detect_frame_and_titleblock
LoopSpec == (MInit \/ TInit) /\ [][MNext \/ TNext]_vars

\* the rounds of the merge loop so far, the returning round included
MergeRounds == IF mpc = "done" THEN mrounds + 1 ELSE mrounds

MaxDEnts == 3

\* the entities the lists are drawn from: two segments of the longest length
\* 4 in different directions, a shorter segment, a circle and an open
\* polyline of two segments
DescPool ==
    <<DLine(0, 0, 4, 0), DLine(0, 0, 0, 4), DLine(0, 0, 2, 0), DCircle(2, 2, 1),
      DPoly(<< <<0, 0>>, <<4, 0>>, <<4, 2>> >>, FALSE)>>

\* the permutations of 1 .. n
Perms(n) == {f \in [1 .. n -> 1 .. n] : \A a, b \in 1 .. n : f[a] = f[b] => a = b}

DInit ==
    /\ \E n \in 1 .. MaxDEnts : \E pick \in [1 .. n -> 1 .. Len(DescPool)] : \E f \in Perms(n) :
          /\ \A a, b \in 1 .. n : pick[a] = pick[b] => a = b
          /\ dents = [k \in 1 .. n |-> DescPool[pick[k]]]
          /\ dorder = [k \in 1 .. n |-> DescPool[pick[f[k]]]]
    /\ ddesc = <<>>
    /\ UFIdle /\ ClIdle /\ MIdle /\ RIdle /\ GIdle /\ LIdle /\ XIdle
    /\ PhIdle /\ CbIdle /\ VIdle /\ EIdle /\ KIdle /\ TIdle /\ BIdle /\ QIdle

\* compute_descriptor(entities, bbox_of_entities(entities)) on each order
DCompute ==
    /\ ddesc = <<>>
    /\ ddesc' = <<compute_descriptor(dents), compute_descriptor(dorder)>>
    /\ UNCHANGED <<dents, dorder, ufVars, clVars, mVars, rVars, gVars, lVars, xVars,
                   phVars, cbVars, vVars, eVars, kVars, tVars, bVars, qVars>>

DescSpec == DInit /\ [][DCompute]_vars

\* the directions of the segments of the longest length in a list
LongestAxes(ents) ==
    LET segs == AllSegs(ents, 1)
    IN {segs[i].axis : i \in {i \in 1 .. Len(segs) : \A j \in 1 .. Len(segs) : segs[j].len <= segs[i].len}}

\* compute_descriptor is invariant under the order of the entities in every
\* field but angles_q, and in angles_q too when the segments of the longest
\* length share one direction
C25_InvariantButTiedAngles ==
    ddesc # <<>> =>
        /\ ddesc[1].counts = ddesc[2].counts
        /\ ddesc[1].lengths_q = ddesc[2].lengths_q
        /\ ddesc[1].radii_q = ddesc[2].radii_q
        /\ ddesc[1].size_q = ddesc[2].size_q
        /\ Cardinality(LongestAxes(dents)) <= 1 => ddesc[1] = ddesc[2]

\* C25: compute_descriptor gives the same descriptor for every order of the
\* same entities, also when two or more segments tie for the longest length
\* while having different directions
C25_OrderInvariant ==
    ddesc # <<>> => ddesc[1] = ddesc[2]

\* ---------------------------------------------------------------------
\* Nested-instance expansion: entity_bbox, _entity_points_and_primitives_xf
\* and _entity_text_items_xf on an INSERT entity
\* ---------------------------------------------------------------------

\* insert_depth of the outermost call
InsertDepth == 4

MaxInserts == 2

\* an INSERT of block name at the offset "at" (entity.matrix44() is the
\* translation by at), a LINE from at to at + (1, 0), a TEXT at "at" whose
\* text is in name
Ins(name, at, continuous) == [type |-> "INSERT", name |-> name, at |-> at, continuous |-> continuous]

BLine(at, continuous) == [type |-> "LINE", name |-> "", at |-> at, continuous |-> continuous]

BText(at, text) == [type |-> "TEXT", name |-> text, at |-> at, continuous |-> TRUE]

\* bbox_transform for a translation m
bbox_transform(m, bb) == <<bb[1] + m[1], bb[2] + m[2], bb[3] + m[1], bb[4] + m[2]>>

\* what a call on the entity e that is no INSERT returns under the matrix m:
\* the LINE primitive, the bbox of the LINE in its own coordinates, or the
\* text item; [] or None is <<>>. The points and the bbox function return
\* at once on an entity whose linetype is not continuous.
LeafResult(fun, e, m) ==
    CASE fun = "points" ->
            IF e.continuous /\ e.type = "LINE"
            THEN << [type |-> "LINE", p0 |-> <<e.at[1] + m[1], e.at[2] + m[2]>>,
                     p1 |-> <<e.at[1] + m[1] + 1, e.at[2] + m[2]>>] >>
            ELSE <<>>
      [] fun = "bbox" ->
            IF e.continuous /\ e.type = "LINE"
            THEN <<e.at[1], e.at[2], e.at[1] + 1, e.at[2]>>
            ELSE <<>>
      [] OTHER ->
            IF e.type = "TEXT" THEN << [text |-> e.name, at |-> <<e.at[1] + m[1], e.at[2] + m[2]>>] >>
            ELSE <<>>

\* the tests before "_visited.add(name)" that every visited name passes
RefusedDepthOnly(fun, e, insert_depth, visited) ==
    \/ fun # "text" /\ ~e.continuous
    \/ insert_depth <= 0

\* a call on the INSERT e returns at once, before "_visited.add(name)": the
\* linetype test, "if insert_depth <= 0", "if name in _visited"
Refused(fun, e, insert_depth, visited) ==
    \/ fun # "text" /\ ~e.continuous
    \/ insert_depth <= 0
    \/ e.name \in visited

\* a finally clause that leaves the name in the set
LeaveKeeps(visited, name) == visited

\* "finally: _visited.remove(name)"
Leave(visited, name) == visited \ {name}

\* the call that expands the INSERT e: m2 = m @ mi for the points and the
\* text function, m = entity.matrix44() for entity_bbox; entry is the
\* history of _visited when the call began
Frame(fun, e, insert_depth, m, visited) ==
    [name |-> e.name, depth |-> insert_depth,
     m |-> IF fun = "bbox" THEN e.at ELSE <<m[1] + e.at[1], m[2] + e.at[2]>>,
     idx |-> 1, acc |-> <<>>, entry |-> visited]

\* the loop body "for child in block" with the result res of the call on the
\* child: pts_all.extend / out.extend, or bbox_union with the transformed box
Accumulate(fun, f, res) ==
    IF fun = "bbox"
    THEN IF res = <<>> THEN f.acc
         ELSE IF f.acc = <<>> THEN bbox_transform(f.m, res)
         ELSE bbox_union(f.acc, bbox_transform(f.m, res))
    ELSE f.acc \o res

BlockNames == {"A", "B"}

\* a LINE and up to MaxInserts instances of blocks, in all arrangements
GraphDocs ==
    {[n \in BlockNames |->
        <<BLine(<<0, 0>>, TRUE)>> \o [k \in 1 .. Len(ins[n]) |->
            Ins(ins[n][k], IF ins[n][k] = "A" THEN <<1, 0>> ELSE <<0, 2>>, TRUE)]] :
        ins \in [BlockNames -> UNION {[1 .. k -> BlockNames] : k \in 0 .. MaxInserts}]}

\* a chain of five definitions, longer than the depth limit
ChainDoc ==
    [n \in {"A", "B", "C", "D", "E"} |->
        CASE n = "A" -> <<Ins("B", <<1, 0>>, TRUE), BLine(<<0, 0>>, TRUE)>>
          [] n = "B" -> <<BLine(<<0, 0>>, TRUE), Ins("C", <<1, 0>>, TRUE)>>
          [] n = "C" -> <<Ins("D", <<1, 0>>, TRUE), BText(<<0, 0>>, "c")>>
          [] n = "D" -> <<Ins("E", <<1, 0>>, TRUE), BLine(<<0, 0>>, TRUE)>>
          [] OTHER -> <<BLine(<<0, 3>>, TRUE), BText(<<0, 0>>, "e")>>]

\* a definition reached on two branches, and one that holds itself
DiamondDoc ==
    [n \in {"A", "B", "C"} |->
        CASE n = "A" -> <<Ins("B", <<0, 2>>, TRUE), Ins("C", <<3, 0>>, TRUE)>>
          [] n = "B" -> <<Ins("C", <<1, 0>>, TRUE), BText(<<0, 0>>, "b")>>
          [] OTHER -> <<BLine(<<0, 0>>, TRUE), Ins("C", <<1, 1>>, TRUE), BText(<<0, 1>>, "c")>>]

\* instances and a line whose linetype is not continuous, and a cycle of
\* three definitions
DashedDoc ==
    [n \in {"A", "B", "C"} |->
        CASE n = "A" -> <<Ins("B", <<0, 2>>, FALSE), BLine(<<0, 0>>, TRUE), Ins("C", <<3, 0>>, TRUE)>>
          [] n = "B" -> <<BLine(<<0, 0>>, TRUE), BText(<<0, 0>>, "b"), Ins("C", <<1, 0>>, TRUE)>>
          [] OTHER -> <<BLine(<<0, 0>>, FALSE), BText(<<0, 1>>, "c"), Ins("A", <<1, 1>>, TRUE)>>]

BlockDocs == GraphDocs \cup {ChainDoc, DiamondDoc, DashedDoc}

BInit ==
    /\ bdoc \in BlockDocs
    /\ btop \in {Ins("A", <<5, 5>>, c) : c \in BOOLEAN}
    /\ bfun \in {"points", "bbox", "text"}
    /\ bstack = <<>>
    /\ bvisited = {}
    /\ bret = <<>>
    /\ bpc = "start"
    /\ bexp = <<>>
    /\ UFIdle /\ ClIdle /\ MIdle /\ RIdle /\ GIdle /\ LIdle /\ XIdle
    /\ PhIdle /\ CbIdle /\ VIdle /\ EIdle /\ KIdle /\ TIdle /\ DIdle /\ QIdle

BOthers == <<ufVars, clVars, mVars, rVars, gVars, lVars, xVars,
             phVars, cbVars, vVars, eVars, kVars, tVars, dVars, qVars>>

\* the outermost call: insert_depth = 4, _visited = None becomes set()
BStart ==
    /\ bpc = "start"
    /\ IF Refused(bfun, btop, InsertDepth, {})
       THEN /\ bpc' = "done"
            /\ UNCHANGED <<bstack, bvisited, bexp>>
       ELSE /\ bpc' = "run"
            /\ bstack' = <<Frame(bfun, btop, InsertDepth, <<0, 0>>, {})>>
            /\ bvisited' = {btop.name}
            /\ bexp' = <<btop.name>>
    /\ UNCHANGED <<bdoc, btop, bfun, bret, BOthers>>

\* the child the innermost call is at
BChild == bdoc[bstack[Len(bstack)].name][bstack[Len(bstack)].idx]

BAtChild == bpc = "run" /\ bstack[Len(bstack)].idx <= Len(bdoc[bstack[Len(bstack)].name])

\* the innermost call takes the result res of the call on its child
BTake(res) ==
    [bstack EXCEPT ![Len(bstack)] =
        [@ EXCEPT !.acc = Accumulate(bfun, bstack[Len(bstack)], res), !.idx = @ + 1]]

\* the call on a child that is no INSERT
BLeaf ==
    /\ BAtChild
    /\ BChild.type # "INSERT"
    /\ bstack' = BTake(LeafResult(bfun, BChild, bstack[Len(bstack)].m))
    /\ UNCHANGED <<bdoc, btop, bfun, bvisited, bret, bpc, bexp, BOthers>>

\* the call on a child INSERT that returns at once
BSkip ==
    /\ BAtChild
    /\ BChild.type = "INSERT"
    /\ Refused(bfun, BChild, bstack[Len(bstack)].depth - 1, bvisited)
    /\ bstack' = BTake(<<>>)
    /\ UNCHANGED <<bdoc, btop, bfun, bvisited, bret, bpc, bexp, BOthers>>

\* the call on a child INSERT that expands it: _visited.add(name) and the
\* loop over the block begins
BEnter ==
    /\ BAtChild
    /\ BChild.type = "INSERT"
    /\ ~Refused(bfun, BChild, bstack[Len(bstack)].depth - 1, bvisited)
    /\ bstack' = Append(bstack, Frame(bfun, BChild, bstack[Len(bstack)].depth - 1,
                                      bstack[Len(bstack)].m, bvisited))
    /\ bvisited' = bvisited \cup {BChild.name}
    /\ bexp' = Append(bexp, BChild.name)
    /\ UNCHANGED <<bdoc, btop, bfun, bret, bpc, BOthers>>

\* the loop over the block is over: the finally clause, the return, and the
\* caller's loop body
BReturn ==
    /\ bpc = "run"
    /\ bstack[Len(bstack)].idx > Len(bdoc[bstack[Len(bstack)].name])
    /\ bvisited' = Leave(bvisited, bstack[Len(bstack)].name)
    /\ IF Len(bstack) = 1
       THEN /\ bpc' = "done"
            /\ bret' = bstack[1].acc
            /\ bstack' = <<>>
       ELSE /\ bstack' = [SubSeq(bstack, 1, Len(bstack) - 1) EXCEPT ![Len(bstack) - 1] =
                            [@ EXCEPT !.acc = Accumulate(bfun, bstack[Len(bstack) - 1],
                                                         bstack[Len(bstack)].acc),
                                      !.idx = @ + 1]]
            /\ UNCHANGED <<bpc, bret>>
    /\ UNCHANGED <<bdoc, btop, bfun, bexp, BOthers>>

BNext == BStart \/ BLeaf \/ BSkip \/ BEnter \/ BReturn

ExpandSpec == BInit /\ [][BNext]_vars

\* the calls are made one after the other until the outermost returns
ExpandFairSpec == BInit /\ [][BNext]_vars /\ WF_vars(BNext)

\* ---- what the expansion is to contribute ----

Width(doc) == SetMax({Len(doc[n]) : n \in DOMAIN doc})

\* the choices of a child in each of up to InsertDepth - 1 nested blocks
Paths(doc) == UNION {[1 .. k -> 1 .. Width(doc)] : k \in 0 .. (InsertDepth - 1)}

NoEntity == [type |-> "NONE", name |-> "", at |-> <<0, 0>>, continuous |-> FALSE]

\* an INSERT the function looks into
Enterable(fun, e) == e.type = "INSERT" /\ (fun = "text" \/ e.continuous)

\* the INSERT reached from top by the first k choices of p
RECURSIVE EntityAt(_, _, _, _, _)
EntityAt(doc, top, fun, p, k) ==
    IF k = 0 THEN (IF Enterable(fun, top) THEN top ELSE NoEntity)
    ELSE LET prev == EntityAt(doc, top, fun, p, k - 1)
         IN IF prev = NoEntity THEN NoEntity
            ELSE IF p[k] <= Len(doc[prev.name]) /\ Enterable(fun, doc[prev.name][p[k]])
                 THEN doc[prev.name][p[k]]
                 ELSE NoEntity

\* p leads through instances of pairwise different definitions
SimplePath(doc, top, fun, p) ==
    /\ \A k \in 0 .. Len(p) : EntityAt(doc, top, fun, p, k) # NoEntity
    /\ \A j, k \in 0 .. Len(p) :
          j # k => EntityAt(doc, top, fun, p, j).name # EntityAt(doc, top, fun, p, k).name

SimplePaths(doc, top, fun) == {p \in Paths(doc) : SimplePath(doc, top, fun, p)}

RECURSIVE PathOffset(_, _, _, _, _)
PathOffset(doc, top, fun, p, k) ==
    IF k = 0 THEN top.at
    ELSE <<PathOffset(doc, top, fun, p, k - 1)[1] + EntityAt(doc, top, fun, p, k).at[1],
           PathOffset(doc, top, fun, p, k - 1)[2] + EntityAt(doc, top, fun, p, k).at[2]>>

\* the entities that are no INSERT at the end of a simple path and yield
\* something, each with what it yields in the coordinates of the caller
Contributions(doc, top, fun) ==
    {[path |-> p, child |-> j,
      value |-> LET e == doc[EntityAt(doc, top, fun, p, Len(p)).name][j]
                    off == PathOffset(doc, top, fun, p, Len(p))
                IN IF fun = "bbox" THEN bbox_transform(off, LeafResult(fun, e, off))
                   ELSE LeafResult(fun, e, off)[1]] :
        <<p, j>> \in {pj \in SimplePaths(doc, top, fun) \X (1 .. Width(doc)) :
                        LET b == EntityAt(doc, top, fun, pj[1], Len(pj[1])).name
                        IN /\ pj[2] <= Len(doc[b])
                           /\ doc[b][pj[2]].type # "INSERT"
                           /\ LeafResult(fun, doc[b][pj[2]], <<0, 0>>) # <<>>}}

\* the returned value holds exactly the contributions: each as often as it
\* arises, or the union of the boxes, None for none
ReturnsContributions(ret, cs, fun) ==
    IF fun = "bbox"
    THEN ret = (IF cs = {} THEN <<>> ELSE UnionOfSet({c.value : c \in cs}))
    ELSE /\ \A i \in 1 .. Len(ret) : \E c \in cs : c.value = ret[i]
         /\ \A c \in cs :
               Cardinality({i \in 1 .. Len(ret) : ret[i] = c.value})
                    = Cardinality({d \in cs : d.value = c.value})

\* C22: the expansion of an INSERT terminates on every block graph, cyclic
\* ones included, with at most InsertDepth nested calls; an instance of a
\* definition on the current path or below the depth limit contributes
\* nothing, and the returned points, bbox or text items are exactly those of
\* the entities reached through instances of pairwise different definitions
\* within the depth limit
C22_ExpansionTerminates ==
    /\ <>(bpc = "done")
    /\ [](Len(bstack) <= InsertDepth)
    /\ [](bpc = "done" => ReturnsContributions(bret, Contributions(bdoc, btop, bfun), bfun))

\* an instance of a definition of the current path is met at the end of a
\* simple path
ReEntry(doc, top, fun) ==
    \E p \in SimplePaths(doc, top, fun) :
        LET b == EntityAt(doc, top, fun, p, Len(p)).name
        IN \E j \in 1 .. Len(doc[b]) :
              /\ Enterable(fun, doc[b][j])
              /\ \E k \in 0 .. Len(p) : EntityAt(doc, top, fun, p, k).name = doc[b][j].name

\* a cyclic graph expanded to the end, with something returned
C22_Witness ==
    /\ bpc = "done"
    /\ bret # <<>>
    /\ ReEntry(bdoc, btop, bfun)

\* the occurrences of name in the history of expansions
Expansions(name) == Cardinality({i \in 1 .. Len(bexp) : bexp[i] = name})

\* C23: _visited is the set of the names on the current path: a call that
\* returns at once leaves it as it is, a call that expands an instance
\* leaves it on return as it was on entry, so that at the end every
\* definition has been expanded once for each simple path to it
C23_VisitedPathScoped ==
    /\ [](/\ bvisited = {bstack[i].name : i \in 1 .. Len(bstack)}
          /\ \A i \in 1 .. Len(bstack) : bstack[i].entry = {bstack[j].name : j \in 1 .. (i - 1)}
          /\ bpc = "done" =>
                \A n \in DOMAIN bdoc :
                    Expansions(n) = Cardinality({p \in SimplePaths(bdoc, btop, bfun) :
                                        EntityAt(bdoc, btop, bfun, p, Len(p)).name = n}))
    /\ [][/\ Len(bstack') < Len(bstack) => bvisited' = bstack[Len(bstack)].entry
          /\ Len(bstack') = Len(bstack) => bvisited' = bvisited]_bVars

\* a definition expanded twice or more in one run, the run at its end
C23_Witness ==
    /\ bpc = "done"
    /\ \E n \in DOMAIN bdoc : Expansions(n) >= 2

\* ---------------------------------------------------------------------
\* group_green_entities with its filter: the modelspace entities that are
\* appended to the entity list, then the two loops and the groups
\* ---------------------------------------------------------------------

MaxRaw == 4

supported == {"LINE", "ARC", "CIRCLE", "LWPOLYLINE", "POLYLINE", "INSERT"}

\* a modelspace entity: handle, effective_aci_color, is_continuous_linetype
\* and the geometry the loops read
Raw(handle, aci, continuous, geom) ==
    [handle |-> handle, aci |-> aci, continuous |-> continuous, geom |-> geom]

\* entity_bbox of a CIRCLE (circle_bbox) or of a LINE or polyline
QBox(g) ==
    IF g.type = "CIRCLE" THEN <<g.c[1] - g.r, g.c[2] - g.r, g.c[1] + g.r, g.c[2] + g.r>>
    ELSE ItemBox(g)

\* bbox_diag(bb) > md, on squares
DiagOver(bb, md) ==
    (bb[3] - bb[1]) * (bb[3] - bb[1]) + (bb[4] - bb[2]) * (bb[4] - bb[2]) > md * md

\* a filter without the colour test
PassesAnyColour(e, opts) ==
    /\ e.geom.type \in supported
    /\ e.handle \notin opts.exclude_handles
    /\ e.continuous
    /\ opts.max_entity_diag > 0 => ~DiagOver(QBox(e.geom), opts.max_entity_diag)
    /\ opts.exclude_bbox # <<>> => ~bbox_contains(opts.exclude_bbox, QBox(e.geom))

\* the body of "for e in msp" reaches entities.append(e); exclude_handles
\* None is the empty set, max_entity_diag None is 0, exclude_bbox None is <<>>
Passes(e, opts) ==
    /\ e.geom.type \in supported
    /\ e.handle \notin opts.exclude_handles
    /\ e.aci \in opts.target_acis
    /\ e.continuous
    /\ opts.max_entity_diag > 0 => ~DiagOver(QBox(e.geom), opts.max_entity_diag)
    /\ opts.exclude_bbox # <<>> => ~bbox_contains(opts.exclude_bbox, QBox(e.geom))

\* the positions of the entities appended, in modelspace order
Appended(msp, opts) == SortedSeq({i \in 1 .. Len(msp) : Passes(msp[i], opts)})

\* two circles one unit apart, a line from the far side of one to the far
\* side of the other, a line from a point on the first and within tol of the
\* second, lines of another colour and of a dashed
\* linetype that would join the first line, a text, and a short line at the
\* first circle inside the exclusion bbox
RawPool ==
    { Raw(1, 3, TRUE, Circle(<<2, 2>>, 2)),
      Raw(2, 3, TRUE, Circle(<<7, 2>>, 2)),
      Raw(3, 3, TRUE, Line(<<0, 2>>, <<9, 2>>)),
      Raw(4, 3, TRUE, Line(<<4, 2>>, <<4, 6>>)),
      Raw(5, 1, TRUE, Line(<<0, 2>>, <<0, 5>>)),
      Raw(6, 3, FALSE, Line(<<9, 2>>, <<9, 5>>)),
      Raw(7, 3, TRUE, [type |-> "TEXT", pts |-> << <<4, 2>> >>, closed |-> FALSE, c |-> <<0, 0>>, r |-> 0]),
      Raw(8, 3, TRUE, Line(<<2, 0>>, <<3, 0>>)) }

\* no exclusion at all, an excluded handle, a diagonal cutoff with an
\* exclusion bbox, and all three
FilterOpts ==
    {[target_acis |-> {3}, max_entity_diag |-> md[1], exclude_handles |-> xh, exclude_bbox |-> md[2]] :
        md \in {<<0, <<>> >>, <<6, <<1, -1, 4, 1>> >>}, xh \in {{}, {4}}}

QInit ==
    /\ \E n \in 1 .. MaxRaw : \E f \in [1 .. n -> RawPool] :
          /\ \A a, b \in 1 .. n : f[a] = f[b] => a = b
          /\ qmsp = f
    /\ qopts \in FilterOpts
    /\ qkept = <<>>
    /\ entities = <<>>
    /\ ctol = 1
    /\ cpc = "filter"
    /\ cidx = 0
    /\ first_owner = <<>>
    /\ point_buckets = <<>>
    /\ circle_indices = <<>>
    /\ groups = {}
    /\ UFIdle /\ MIdle /\ RIdle /\ GIdle /\ LIdle /\ XIdle
    /\ PhIdle /\ CbIdle /\ VIdle /\ EIdle /\ KIdle /\ TIdle /\ DIdle /\ BIdle

\* the loop "for e in msp" and uf = UnionFind(len(entities))
QFilter ==
    /\ cpc = "filter"
    /\ qkept' = Appended(qmsp, qopts)
    /\ entities' = [k \in 1 .. Len(qkept') |-> qmsp[qkept'[k]].geom]
    /\ parent' = UFInitParent(Len(qkept'))
    /\ rank' = UFInitRank(Len(qkept'))
    /\ cpc' = "points"
    /\ UNCHANGED <<qmsp, qopts, ctol, cidx, first_owner, point_buckets, circle_indices, groups,
                   edges, ufRet, ufNoop, mVars, rVars, gVars, lVars, xVars,
                   phVars, cbVars, vVars, eVars, kVars, tVars, dVars, bVars>>

GroupSpec == QInit /\ [][QFilter \/ ClNext]_vars

\* the groups are non-empty, disjoint, and cover the returned entity list
GroupsPartition ==
    /\ {} \notin groups
    /\ UNION groups = Idxs
    /\ \A g \in groups, h \in groups : g # h => g \cap h = {}

\* the returned entities are the modelspace entities that pass every test,
\* in modelspace order
OnlyAdmitted ==
    /\ Len(entities) = Len(qkept)
    /\ \A k \in 1 .. Len(qkept) :
          /\ entities[k] = qmsp[qkept[k]].geom
          /\ qmsp[qkept[k]].handle \notin qopts.exclude_handles
          /\ qmsp[qkept[k]].aci \in qopts.target_acis
          /\ qmsp[qkept[k]].continuous
          /\ qopts.exclude_bbox # <<>> => ~bbox_contains(qopts.exclude_bbox, QBox(entities[k]))
    /\ \A i \in 1 .. Len(qmsp) :
          (\E k \in 1 .. Len(qkept) : qkept[k] = i) <=> Passes(qmsp[i], qopts)

\* no circle owns a bucket or has a point in one: every union is called with
\* a non-circle entity
NoCircleInBuckets ==
    /\ \A k \in DOMAIN first_owner : ~IsCircle(first_owner[k])
    /\ \A k \in DOMAIN point_buckets : \A i \in Claimants(k) : ~IsCircle(i)

\* a connection point of the entity k lies within tol of the circumference
\* of the circle i and of the circle j
OnBoth(i, j, k) ==
    \E p \in ConnPts(k) :
        /\ OnCircle(p[1], p[2], entities[i + 1].c[1], entities[i + 1].c[2], entities[i + 1].r, ctol)
        /\ OnCircle(p[1], p[2], entities[j + 1].c[1], entities[j + 1].c[2], entities[j + 1].r, ctol)

\* C30: the groups partition the returned entity list and none is empty; no
\* entity with an excluded handle, a colour outside the target set, a
\* linetype that is not continuous or a bbox inside the exclusion bbox is
\* returned; two circles are never passed to one union, and two circles in
\* one group each touch a non-circle entity of that group (a connection
\* point within tol of the circumference), which need not be the same
\* entity or the same point
C30_PartitionFilterCircles ==
    /\ cpc \in {"points", "circles", "done"} => OnlyAdmitted /\ NoCircleInBuckets
    /\ cpc = "done" =>
          /\ GroupsPartition
          /\ \A i \in Idxs, j \in Idxs :
                (i # j /\ IsCircle(i) /\ IsCircle(j) /\ GroupOf(i) = GroupOf(j)) =>
                    /\ \E k \in GroupOf(i) : Touches(i, k)
                    /\ \E k \in GroupOf(i) : Touches(j, k)

\* the statement as written: two circles are in one group only through a
\* non-circle entity with one connection point on both circumferences
C30_CirclesOnlyThroughSharedPoint ==
    cpc = "done" =>
        /\ GroupsPartition
        /\ OnlyAdmitted
        /\ NoCircleInBuckets
        /\ \A i \in Idxs, j \in Idxs :
              (i # j /\ IsCircle(i) /\ IsCircle(j) /\ GroupOf(i) = GroupOf(j)) =>
                  \E k \in Idxs : ~IsCircle(k) /\ OnBoth(i, j, k)

\* a run in which an entity was filtered out and the two circles share a
\* group through the line that touches each of them at a different point
C30_Witness ==
    /\ cpc = "done"
    /\ Len(entities) = 3
    /\ Len(qmsp) > Len(entities)
    /\ Cardinality(groups) = 1
    /\ \E i \in Idxs, j \in Idxs : i # j /\ IsCircle(i) /\ IsCircle(j)
    /\ \A i \in Idxs, j \in Idxs, k \in Idxs : ~OnBoth(i, j, k) \/ i = j \/ ~IsCircle(i) \/ ~IsCircle(j)
====
